---- MODULE Spec2Model ----
(***************************************************************************)
(* A model of the mcachego cache: the expiration FIFO (itemFifo), the      *)
(* open-addressed hashtable used by every shard and the Cache facade       *)
(* (New, Reset, Store, Load, EvictByRef, Evict).                           *)
(*                                                                         *)
(* Representation choices                                                  *)
(*  - A 64 bit hash word is the record [inUse, bits]: inUse is bit 63      *)
(*    (ITEM_IN_USE_MASK) and bits are the low 63 bits.  Keys are drawn     *)
(*    below 2^63, so hash | ITEM_IN_USE_MASK sets inUse and keeps bits.    *)
(*  - The uintptr value of a slot is the pair <<low word, high word>> of   *)
(*    the 64 bit word (a 64 bit build): the cache's item struct            *)
(*    {expirationMs int32; o uint32} is stored there bit for bit.          *)
(*  - The slot array of a table, data, is kept as the map of its slots in  *)
(*    use; each of the other slots 0..count-1 holds the reset item (a     *)
(*    slot is only ever written by Store, in use, or reset).              *)
(*  - TimeMs is int32; sums and differences wrap modulo 2^32.              *)
(*  - Of the hashtable's diagnostic counters only Statistics.Store is     *)
(*    kept (the model bounds it); the others decide nothing.               *)
(***************************************************************************)
EXTENDS Integers, Sequences, FiniteSets, TLC

\* ------------------------------------------------------------------ bounds
\* Evict is called at most this many times between two Resets
MaxEvictCalled == 2
\* the shard tables' Store is called at most this many times in all
MaxTableStore == 3
\* a pool's Alloc and AllocSync are called at most this many times between Resets
MaxPoolAlloc == 3
\* a pool's Free and FreeSync are called at most this many times between Resets
MaxPoolFree == 3
\* concurrent callers of the pool start at most this many calls in all
MaxSyncCalls == 4
\* concurrent callers of the cache start at most this many calls in all
MaxCacheCalls == 3

\* ---------------------------------------------------------- program constants
MaxInt32 == 2147483647
MinInt32 == (-MaxInt32) - 1
\* hashtable.New(shardSize, 64) in mcache.New
TableCollisions == 64
\* configuration.Collisions default
DefaultCollisions == 64
\* configuration.LoadFactor default
DefaultLoadFactor == 50
\* unsafe.Sizeof(hashtable item): key, value, hash of 8 bytes each
ItemSize == 24
\* unsafe.Sizeof(objectType) of a reflect.Type, an interface value of two words
ObjectSize == 16
\* the head of hashtable.PrimeList
PrimeList == <<2, 3, 5, 7, 11, 13, 17, 23, 29, 37, 47>>

\* the keys stored: 0 and 2 share their shard and their home slot in every
\* configuration below (the tables have 2 home slots), 1 has the next slot
Keys == {0, 1, 2}
\* the payloads (Object) stored and the instant each is stored at: early, and
\* so late that the expiration wraps past the int32 maximum
Objects == {0, 1}
StoreTime(o) == IF o = 0 THEN 0 ELSE MaxInt32 - 1
\* the configurations New is called with: fifos of 1 and 2 keys, one shard and
\* two, a load factor of 100 and the defaults (Shards, Collisions, LoadFactor 0)
Configurations ==
    {[Size |-> 1, Shards |-> 1, TTL |-> 2, Collisions |-> 0, LoadFactor |-> 100],
     [Size |-> 2, Shards |-> 1, TTL |-> 2, Collisions |-> 0, LoadFactor |-> 100],
     [Size |-> 1, Shards |-> 0, TTL |-> 2, Collisions |-> 0, LoadFactor |-> 0]}
\* runtime.NumCPU()
CPUs == {1}
\* the instants Evict is called at
EvictTimes == {0, 2, 3, MaxInt32, MinInt32 + 1}

\* ------------------------------------------------------------ int32 arithmetic
\* a + b of two int32, wrapping modulo 2^32 (Go's TimeMs addition)
Add32(a, b) ==
    IF b >= 0
    THEN IF a > MaxInt32 - b THEN (a + MinInt32) + (b + MinInt32) ELSE a + b
    ELSE IF a < MinInt32 - b THEN (a - MinInt32) + (b - MinInt32) ELSE a + b

\* a - b of two int32, wrapping modulo 2^32 (Go's TimeMs subtraction)
Sub32(a, b) ==
    IF b = MinInt32 THEN Add32(Add32(a, MaxInt32), 1) ELSE Add32(a, -b)

\* a & b of two non-negative integers
RECURSIVE BitAnd(_, _)
BitAnd(a, b) ==
    IF a = 0 \/ b = 0 THEN 0
    ELSE (a % 2) * (b % 2) + 2 * BitAnd(a \div 2, b \div 2)

\* ------------------------------------------------------------------ hashtable
RECURSIVE NextPower2(_, _)
NextPower2(p, N) == IF p >= N THEN p ELSE NextPower2(2 * p, N)

\* GetPower2: N-1 with every bit below its top bit set, plus 1
GetPower2(N) == IF N <= 0 THEN 0 ELSE NextPower2(1, N)

\* getSize: the first prime of PrimeList that is >= N
getSize(N) ==
    LET ok == {i \in 1..Len(PrimeList) : PrimeList[i] >= N}
    IN PrimeList[CHOOSE i \in ok : \A j \in ok : i <= j]

\* moduloSize_P(hash), the function getModuloSizeFunction(size) picks
moduloSize(size, hash) == hash % size

\* hash | ITEM_IN_USE_MASK
SetInUse(hash) == [inUse |-> TRUE, bits |-> hash]

\* item.reset(): key, hash and value zeroed
ResetItem == [key |-> 0, value |-> <<0, 0>>, hash |-> [inUse |-> FALSE, bits |-> 0]]

inUse(it) == it.hash.inUse

isSameAndInUse_anyKey(i, other) == inUse(i)

isSameAndInUse(i, other) ==
    inUse(i) /\ i.hash = other.hash /\ i.key = other.key

nextIndex(index) == index + 1

\* h.data[index]
slot(h, index) == IF index \in DOMAIN h.data THEN h.data[index] ELSE ResetItem

\* h.data[index] = it, for an item in use
setSlot(h, index, it) ==
    [h EXCEPT !.data = [j \in DOMAIN h.data \cup {index} |->
                           IF j = index THEN it ELSE h.data[j]]]

\* h.data[index].reset()
resetSlot(h, index) ==
    [h EXCEPT !.data = [j \in DOMAIN h.data \ {index} |-> h.data[j]]]

\* Hashtable.Reset: every slot reset
Hashtable_Reset_keep(h) == h

Hashtable_Reset(h) == [h EXCEPT !.data = [j \in {} |-> ResetItem]]

\* hashtable.New(size, maxCollisions)
Hashtable_New_noSpare(size, maxCollisions) ==
    LET P == getSize(size)
    IN Hashtable_Reset([size |-> P, maxCollisions |-> maxCollisions,
                        statistics |-> [Store |-> 0],
                        count |-> P,
                        data |-> [j \in {} |-> ResetItem]])

Hashtable_New(size, maxCollisions) ==
    LET P == getSize(size)
        count == P + maxCollisions
    IN Hashtable_Reset([size |-> P, maxCollisions |-> maxCollisions,
                        statistics |-> [Store |-> 0],
                        count |-> count,
                        data |-> [j \in {} |-> ResetItem]])

\* the probe loop of Hashtable.Store, from slot index with collisions probes done:
\* the slot written (ok) or nothing (duplicate found, or probes exhausted)
RECURSIVE StoreProbe(_, _, _, _)
StoreProbe(h, lookIt, index, collisions) ==
    IF collisions >= h.maxCollisions THEN [ok |-> FALSE, index |-> index]
    ELSE IF ~inUse(slot(h, index)) THEN [ok |-> TRUE, index |-> index]
    ELSE IF isSameAndInUse(slot(h, index), lookIt) THEN [ok |-> FALSE, index |-> index]
    ELSE StoreProbe(h, lookIt, nextIndex(index), collisions + 1)

\* Hashtable.Store(key, hash, value): the table after the call and the result
Hashtable_Store(h, key, hash, value) ==
    LET index0 == moduloSize(h.size, hash)
        lookIt == [key |-> key, hash |-> SetInUse(hash)]
        p == StoreProbe(h, lookIt, index0, 0)
        h1 == [h EXCEPT !.statistics.Store = @ + 1]
    IN IF p.ok
       THEN [h |-> setSlot(h1, p.index,
                           [key |-> key, value |-> value, hash |-> SetInUse(hash)]),
             ok |-> TRUE, index |-> p.index]
       ELSE [h |-> h1, ok |-> FALSE, index |-> 0]

\* Hashtable.find: the loop probes the maxCollisions slots from index on, free
\* slots included, and stops at the first slot in use that holds the key and
\* the hash: the lowest such slot of the probed range (a slot that is not in
\* the map data is not in use)
find_stopAtFree(h, key, hash, index) ==
    LET lookIt == [key |-> key, hash |-> SetInUse(hash)]
        hits == {i \in DOMAIN h.data :
                    /\ index <= i
                    /\ i < index + h.maxCollisions
                    /\ isSameAndInUse(slot(h, i), lookIt)
                    /\ \A j \in index..(i - 1) : inUse(slot(h, j))}
    IN IF hits = {} THEN [index |-> 0, ok |-> FALSE]
       ELSE [index |-> CHOOSE i \in hits : \A j \in hits : i <= j, ok |-> TRUE]

find(h, key, hash, index) ==
    LET lookIt == [key |-> key, hash |-> SetInUse(hash)]
        hits == {i \in DOMAIN h.data :
                    /\ index <= i
                    /\ i < index + h.maxCollisions
                    /\ isSameAndInUse(slot(h, i), lookIt)}
    IN IF hits = {} THEN [index |-> 0, ok |-> FALSE]
       ELSE [index |-> CHOOSE i \in hits : \A j \in hits : i <= j, ok |-> TRUE]

\* the slot indices the loop of Hashtable.Store reads, from slot index with
\* collisions probes done
RECURSIVE StoreProbes(_, _, _, _)
StoreProbes(h, lookIt, index, collisions) ==
    IF collisions >= h.maxCollisions THEN {}
    ELSE IF ~inUse(slot(h, index)) THEN {index}
    ELSE IF isSameAndInUse(slot(h, index), lookIt) THEN {index}
    ELSE {index} \cup StoreProbes(h, lookIt, nextIndex(index), collisions + 1)

\* the slot indices the loop of Hashtable.find reads, from slot index with
\* collisions probes done
RECURSIVE findProbes(_, _, _, _)
findProbes(h, lookIt, index, collisions) ==
    IF collisions >= h.maxCollisions THEN {}
    ELSE IF isSameAndInUse(slot(h, index), lookIt) THEN {index}
    ELSE {index} \cup findProbes(h, lookIt, nextIndex(index), collisions + 1)

\* Hashtable.Load(key, hash): value, ok and ref, the byte offset of the slot
Hashtable_Load(h, key, hash) ==
    LET f == find(h, key, hash, moduloSize(h.size, hash))
    IN IF f.ok
       THEN [value |-> slot(h, f.index).value, ok |-> TRUE, ref |-> f.index * ItemSize]
       ELSE [value |-> <<0, 0>>, ok |-> FALSE, ref |-> 0]

\* Hashtable.GetNext(index): the loop runs i from index to len(h.data) - 1 and
\* stops at the first slot in use, the lowest of them (a slot that is not in
\* the map data is not in use); the table is not written
Hashtable_GetNext_skip(h, index) ==
    LET hits == {i \in DOMAIN h.data : index <= i /\ i < h.count /\ inUse(slot(h, i))}
        first == CHOOSE i \in hits : \A j \in hits : i <= j
    IN IF hits = {}
       THEN [nextIndex |-> h.count, value |-> ResetItem.value, key |-> 0, ok |-> FALSE]
       ELSE [nextIndex |-> first + 2, value |-> slot(h, first).value,
             key |-> slot(h, first).key, ok |-> TRUE]

Hashtable_GetNext(h, index) ==
    LET hits == {i \in DOMAIN h.data : index <= i /\ i < h.count /\ inUse(slot(h, i))}
        first == CHOOSE i \in hits : \A j \in hits : i <= j
    IN IF hits = {}
       THEN [nextIndex |-> h.count, value |-> ResetItem.value, key |-> 0, ok |-> FALSE]
       ELSE [nextIndex |-> first + 1, value |-> slot(h, first).value,
             key |-> slot(h, first).key, ok |-> TRUE]

\* Hashtable.RemoveByRef(ref): the slot at byte offset ref is reset
Hashtable_RemoveByRef(h, ref) == resetSlot(h, ref \div ItemSize)

\* Hashtable.Remove(key, hash): the table after the call, the value and ok
Hashtable_Remove(h, key, hash) ==
    LET f == find(h, key, hash, moduloSize(h.size, hash))
    IN IF f.ok
       THEN [h |-> resetSlot(h, f.index), value |-> slot(h, f.index).value, ok |-> TRUE]
       ELSE [h |-> h, value |-> <<0, 0>>, ok |-> FALSE]

\* ------------------------------------------------------------------- itemFifo
newFifo(size) ==
    [head |-> 0, tail |-> 0, data |-> [i \in 0..size |-> 0], size |-> size]

itemFifo_inc(s, v) == IF v < s.size THEN v + 1 ELSE 0

\* itemFifo.add(key): the fifo after the call and ok
itemFifo_add_always(s, key) ==
    [s |-> [s EXCEPT !.data[s.tail] = key, !.tail = itemFifo_inc(s, s.tail)], ok |-> TRUE]

itemFifo_add(s, key) ==
    LET newTail == itemFifo_inc(s, s.tail)
    IN IF s.head # newTail
       THEN [s |-> [s EXCEPT !.data[s.tail] = key, !.tail = newTail], ok |-> TRUE]
       ELSE [s |-> s, ok |-> FALSE]

\* itemFifo.remove()
itemFifo_remove_two(s) ==
    [s |-> [s EXCEPT !.head = itemFifo_inc(s, itemFifo_inc(s, s.head))],
     key |-> s.data[s.head], ok |-> TRUE]

itemFifo_remove(s) ==
    LET newHead == itemFifo_inc(s, s.head)
    IN IF s.head # s.tail
       THEN [s |-> [s EXCEPT !.head = newHead], key |-> s.data[s.head], ok |-> TRUE]
       ELSE [s |-> s, key |-> 0, ok |-> FALSE]

\* itemFifo.pick()
itemFifo_pick(s) ==
    IF s.head # s.tail
    THEN [key |-> s.data[s.head], ok |-> TRUE]
    ELSE [key |-> 0, ok |-> FALSE]

\* itemFifo.Len()
itemFifo_Len(s) ==
    IF s.head <= s.tail THEN s.tail - s.head ELSE s.size - s.head + s.tail

\* ---------------------------------------------------------------------- Cache
\* iValue := *((*uintptr)(unsafe.Pointer(&i))): the item struct read as one word,
\* expirationMs in the low half and o in the high half
ItemToValue(i) == <<i.expirationMs, i.o>>

\* i := *(*item)(unsafe.Pointer(&iValue))
ValueToItem(v) == [expirationMs |-> v[1], o |-> v[2]]

\* ItemRef(uint64(hashtableRef) | (uint64(shardIdx) << 32))
MakeItemRef(hashtableRef, shardIdx) == [lo |-> hashtableRef, hi |-> shardIdx]

NewStatistics ==
    [EvictCalled |-> 0, EvictExpired |-> 0, EvictForce |-> 0, EvictNotExpired |-> 0,
     EvictLookupFailed |-> 0, EvictPeekFailed |-> 0, MaxOccupancy |-> 0]

\* Cache.Reset: a new fifo, every shard table reset, new statistics
Cache_Reset(c) ==
    [c EXCEPT !.fifo = newFifo(c.size),
              !.shards = [i \in DOMAIN c.shards |->
                             [table |-> Hashtable_Reset(c.shards[i].table)]],
              !.statistics = NewStatistics]

\* mcache.New(configuration) on a machine of numCPU processors
Cache_New(configuration, numCPU) ==
    LET shards0 == IF configuration.Shards = 0 THEN 2 * numCPU ELSE configuration.Shards
        shards == GetPower2(shards0)
        loadFactor == IF configuration.LoadFactor = 0 THEN DefaultLoadFactor
                      ELSE configuration.LoadFactor
        collisions == IF configuration.Collisions = 0 THEN DefaultCollisions
                      ELSE configuration.Collisions
        conf == [Size |-> configuration.Size, Shards |-> shards, TTL |-> configuration.TTL,
                 Collisions |-> collisions, LoadFactor |-> loadFactor]
        size == (conf.Size * 100) \div conf.LoadFactor
        shardSize == size \div shards
    IN Cache_Reset([fifo |-> newFifo(size),
                    size |-> size,
                    shards |-> [i \in 0..(shards - 1) |->
                                   [table |-> Hashtable_New(shardSize, TableCollisions)]],
                    shardsMask |-> shards - 1,
                    statistics |-> NewStatistics,
                    configuration |-> conf])

\* Cache.Len
Cache_Len(c) == itemFifo_Len(c.fifo)

\* Cache.Size
Cache_Size_configured(c) == c.configuration.Size

Cache_Size(c) == c.fifo.size

\* Cache.Store(key, o, now): the cache after the call and the result.  The
\* result of the table's Store is not looked at; the fifo's add decides.
Cache_Store(c, key, o, now) ==
    LET i == [o |-> o, expirationMs |-> Add32(now, c.configuration.TTL)]
        iValue == ItemToValue(i)
        hash == key
        shardIdx == BitAnd(hash, c.shardsMask)
        t == Hashtable_Store(c.shards[shardIdx].table, key, hash, iValue)
        a == itemFifo_add(c.fifo, key)
        count == itemFifo_Len(a.s)
        maxOccupancy == IF c.statistics.MaxOccupancy < count THEN count
                        ELSE c.statistics.MaxOccupancy
    IN [c |-> [c EXCEPT !.shards[shardIdx].table = t.h,
                        !.fifo = a.s,
                        !.statistics.MaxOccupancy = maxOccupancy],
        ok |-> a.ok]

\* Cache.Load(key)
Cache_Load(c, key) ==
    LET hash == key
        shardIdx == BitAnd(hash, c.shardsMask)
        l == Hashtable_Load(c.shards[shardIdx].table, key, hash)
    IN [o |-> ValueToItem(l.value).o, ref |-> MakeItemRef(l.ref, shardIdx), ok |-> l.ok]

\* Cache.EvictByRef(ref)
Cache_EvictByRef(c, ref) ==
    LET shardIdx == ref.hi
        hashtableRef == ref.lo
    IN [c EXCEPT !.shards[shardIdx].table =
                     Hashtable_RemoveByRef(c.shards[shardIdx].table, hashtableRef)]

\* isExpired := ((i.expirationMs - now) <= 0), an int32 subtraction
isExpired_noWrap(expirationMs, now) == expirationMs <= now

isExpired_strict(expirationMs, now) == Sub32(expirationMs, now) < 0

isExpired(expirationMs, now) == Sub32(expirationMs, now) <= 0

\* Cache.Evict(now, force)
Cache_Evict_uncounted(c, now, force) ==
    LET st0 == [c.statistics EXCEPT !.EvictCalled = @ + 1]
        p == itemFifo_pick(c.fifo)
        key == p.key
        hash == key
        shardIdx == BitAnd(hash, c.shardsMask)
        l == Hashtable_Load(c.shards[shardIdx].table, key, hash)
        i == ValueToItem(l.value)
        expired == isExpired(i.expirationMs, now)
    IN IF ~p.ok
       THEN [c |-> [c EXCEPT !.statistics = [st0 EXCEPT !.EvictPeekFailed = @ + 1]],
             o |-> 0, expired |-> FALSE]
       ELSE IF ~l.ok
       THEN [c |-> [c EXCEPT !.statistics = st0,
                             !.fifo = itemFifo_remove(c.fifo).s],
             o |-> 0, expired |-> FALSE]
       ELSE IF expired \/ force
       THEN [c |-> [c EXCEPT !.statistics = [st0 EXCEPT !.EvictExpired = @ + 1,
                                                        !.EvictForce = @ + 1],
                             !.fifo = itemFifo_remove(c.fifo).s,
                             !.shards[shardIdx].table =
                                 Hashtable_RemoveByRef(c.shards[shardIdx].table, l.ref)],
             o |-> i.o, expired |-> TRUE]
       ELSE [c |-> [c EXCEPT !.statistics = [st0 EXCEPT !.EvictNotExpired = @ + 1]],
             o |-> 0, expired |-> FALSE]

\* Cache.Evict(now, force).  EvictForce is counted while the result variable
\* expired is still false, that is on every eviction.
Cache_Evict(c, now, force) ==
    LET st0 == [c.statistics EXCEPT !.EvictCalled = @ + 1]
        p == itemFifo_pick(c.fifo)
        key == p.key
        hash == key
        shardIdx == BitAnd(hash, c.shardsMask)
        l == Hashtable_Load(c.shards[shardIdx].table, key, hash)
        i == ValueToItem(l.value)
        expired == isExpired(i.expirationMs, now)
    IN IF ~p.ok
       THEN [c |-> [c EXCEPT !.statistics = [st0 EXCEPT !.EvictPeekFailed = @ + 1]],
             o |-> 0, expired |-> FALSE]
       ELSE IF ~l.ok
       THEN [c |-> [c EXCEPT !.statistics = [st0 EXCEPT !.EvictLookupFailed = @ + 1],
                             !.fifo = itemFifo_remove(c.fifo).s],
             o |-> 0, expired |-> FALSE]
       ELSE IF expired \/ force
       THEN [c |-> [c EXCEPT !.statistics = [st0 EXCEPT !.EvictExpired = @ + 1,
                                                        !.EvictForce = @ + 1],
                             !.fifo = itemFifo_remove(c.fifo).s,
                             !.shards[shardIdx].table =
                                 Hashtable_RemoveByRef(c.shards[shardIdx].table, l.ref)],
             o |-> i.o, expired |-> TRUE]
       ELSE [c |-> [c EXCEPT !.statistics = [st0 EXCEPT !.EvictNotExpired = @ + 1]],
             o |-> 0, expired |-> FALSE]

\* ---------------------------------------------------------------- state machine
\* c        the Cache object
\* History kept for the properties only:
\* gring    one record per key in the fifo, oldest first: slot is the table slot
\*          the Store that added the key filled, with that Store's payload o and
\*          time t, while that entry is still in the table; else slot is -1
\* stored   the keys for which a Store returned true and of which no Evict or
\*          EvictByRef has removed an entry since
\* byRef    the number of entries EvictByRef removed since the last Reset,
\*          counted up to MaxEvictCalled
\* called   the keys Store has been called with since New or the last Reset
VARIABLES c, gring, stored, byRef, called

\* tbl      a Hashtable used on its own (NoTable while the cache is run)
VARIABLES tbl
\* pool     an unsafepool.Pool (NoPool while the cache or the table is run)
\* fault    the program has stopped on an index out of range
\* History kept for the properties only:
\* lent     the blocks Alloc has returned and Free has not taken back
\* clean    every Free so far was given a block that was lent
\* given    the pointers Alloc and AllocSync have returned since New
VARIABLES pool, fault, lent, clean, given
\* The pool with concurrent callers of AllocSync and FreeSync:
\* pth      of every caller: where it is in its call (pc), and its locals
\* held     of every caller: the blocks AllocSync gave it that it has not freed
\* twice    an AllocSync has returned a block that a caller held
\* calls    the number of calls started
VARIABLES pth, held, twice, calls
\* The cache with concurrent callers of Store, Load, EvictByRef and Evict
\* (the cache itself is c):
\* cth      of every caller: where it is in its call (pc), and its locals
\* mutex    of every shard: the callers inside Lock..Unlock (w) and inside
\*          RLock..RUnlock (r)
\* History kept for the properties only:
\* entry    of every shard: the table slots in use, each with the number of
\*          the table Store that filled it
\* nextId   the number the next successful table Store gets
\* evicted  the entries an Evict has returned with expired = true
\* removed  the entries an EvictByRef has removed
\* again    an Evict has returned with expired = true an entry that was
\*          evicted or removed before
\* started  the number of calls started
\* added    the keys for which a Store has returned true
VARIABLES cth, mutex, entry, nextId, evicted, removed, again, started, added
\* fifo     an itemFifo used on its own (NoFifo otherwise)
\* queue    the keys add has queued and remove has not returned, oldest first
VARIABLES fifo, queue

\* For the cache with a caller that evicts for ever:
\* clock    the time of the caller, the now of its Store and Evict calls
\* owed     the payloads of the Stores that returned true and that no Evict
\*          has returned with expired = true yet
VARIABLES clock, owed

cacheVars == <<c, gring, stored, byRef, called>>
tableVars == <<tbl>>
poolVars == <<pool, fault, lent, clean, given>>
syncVars == <<pth, held, twice, calls>>
concVars == <<cth, mutex, entry, nextId, evicted, removed, again, started, added>>
fifoVars == <<fifo, queue>>
liveVars == <<clock, owed>>
vars == <<cacheVars, tableVars, poolVars, syncVars, concVars, fifoVars, liveVars>>

NoTable == [size |-> 0]
NoPool == [top |-> 0]
NoCache == [size |-> 0]
NoFifo == [size |-> 0]
PoolOff == pool = NoPool /\ fault = FALSE /\ lent = {} /\ clean = TRUE /\ given = {}
TableOff == tbl = NoTable
CacheOff == c = NoCache /\ gring = <<>> /\ stored = {} /\ byRef = 0 /\ called = {}
FifoOff == fifo = NoFifo /\ queue = <<>>
LiveOff == clock = 0 /\ owed = {}
SyncOff == pth = <<>> /\ held = <<>> /\ twice = FALSE /\ calls = 0
ConcOff ==
    /\ cth = <<>> /\ mutex = <<>> /\ entry = <<>> /\ nextId = 0
    /\ evicted = {} /\ removed = {} /\ again = FALSE /\ started = 0
    /\ added = {}
\* what the cache's operations leave alone
CacheOnly == UNCHANGED <<tableVars, poolVars, syncVars, concVars, fifoVars, liveVars>>

shardOf(key) == BitAnd(key, c.shardsMask)

NoEntry(key) == [key |-> key, o |-> 0, t |-> 0, slot |-> -1]

\* gring with the records of table slot index of shard shardIdx marked removed
Unslot(g, shardIdx, index) ==
    [j \in DOMAIN g |->
        IF shardOf(g[j].key) = shardIdx /\ g[j].slot = index
        THEN NoEntry(g[j].key) ELSE g[j]]

\* Statistics.Store of the shard tables 0..n, summed
RECURSIVE TableStores(_, _)
TableStores(cache, n) ==
    IF n < 0 THEN 0
    ELSE cache.shards[n].table.statistics.Store + TableStores(cache, n - 1)

Init ==
    /\ \E configuration \in Configurations, numCPU \in CPUs :
          c = Cache_New(configuration, numCPU)
    /\ gring = <<>>
    /\ stored = {}
    /\ byRef = 0
    /\ called = {}
    /\ TableOff
    /\ FifoOff
    /\ LiveOff
    /\ PoolOff
    /\ SyncOff
    /\ ConcOff

Store(key, o, now) ==
    LET r == Cache_Store(c, key, o, now)
        t == Hashtable_Store(c.shards[shardOf(key)].table, key, key, <<0, 0>>)
    IN /\ TableStores(c, c.shardsMask) < MaxTableStore
       /\ c' = r.c
       /\ gring' = IF r.ok
                   THEN Append(gring, IF t.ok
                                      THEN [key |-> key, o |-> o, t |-> now,
                                            slot |-> t.index]
                                      ELSE NoEntry(key))
                   ELSE gring
       /\ stored' = IF r.ok THEN stored \cup {key} ELSE stored
       /\ called' = called \cup {key}
       /\ UNCHANGED byRef
       /\ CacheOnly

\* Load changes nothing of the cache: what it returns is Cache_Load(c, key)
Load(key) ==
    /\ Cache_Load(c, key).ok \in BOOLEAN
    /\ UNCHANGED vars

\* The ItemRefs a caller can hold: the refs Load has returned.  A Load that
\* misses returns offset 0 of the key's shard; a Load made right after the
\* Store that filled a slot returns that slot, so every slot in use has been
\* returned; a ref to a slot that is free again resets a reset item, which
\* changes nothing.
HeldRefs ==
    UNION {{MakeItemRef(x * ItemSize, i) :
               x \in {0} \cup DOMAIN c.shards[i].table.data} :
           i \in DOMAIN c.shards}

EvictByRef(ref) ==
    LET shardIdx == ref.hi
        index == ref.lo \div ItemSize
        it == slot(c.shards[shardIdx].table, index)
    IN /\ c' = Cache_EvictByRef(c, ref)
       /\ gring' = Unslot(gring, shardIdx, index)
       /\ stored' = IF inUse(it) THEN stored \ {it.key} ELSE stored
       /\ byRef' = IF inUse(it) /\ byRef < MaxEvictCalled THEN byRef + 1 ELSE byRef
       /\ UNCHANGED called
       /\ CacheOnly

Evict(now, force) ==
    /\ c.statistics.EvictCalled < MaxEvictCalled
    /\ LET r == Cache_Evict(c, now, force)
           p == itemFifo_pick(c.fifo)
           l == Hashtable_Load(c.shards[shardOf(p.key)].table, p.key, p.key)
           g1 == IF r.expired
                 THEN Unslot(gring, shardOf(p.key), l.ref \div ItemSize) ELSE gring
       IN /\ c' = r.c
          /\ gring' = IF r.c.fifo.head # c.fifo.head THEN Tail(g1) ELSE g1
          /\ stored' = IF r.expired THEN stored \ {p.key} ELSE stored
          /\ UNCHANGED <<byRef, called>>
          /\ CacheOnly

Reset ==
    /\ c' = Cache_Reset(c)
    /\ gring' = <<>>
    /\ stored' = {}
    /\ byRef' = 0
    /\ called' = {}
    /\ CacheOnly

Next ==
    \/ \E key \in Keys, o \in Objects : Store(key, o, StoreTime(o))
    \/ \E key \in Keys : Load(key)
    \/ \E ref \in HeldRefs : EvictByRef(ref)
    \/ \E now \in EvictTimes, force \in BOOLEAN : Evict(now, force)
    \/ Reset

Spec == Init /\ [][Next]_vars

\* ------------------------------------------------- the hashtable on its own
\* the keys stored with the hash the caller computes for each: 0 and 4 have
\* the same hash, 0 and 2 have different hashes and the same home slot
TableKeys == {0, 1, 2, 4}
TableHash(key) == key % 4
\* the values stored
TableValues == {<<1, 0>>, <<2, 0>>}
\* the arguments of hashtable.New: size and maxCollisions
TableShapes == {<<2, 2>>, <<2, TableCollisions>>}

TableOnly == UNCHANGED <<cacheVars, poolVars, syncVars, concVars, fifoVars, liveVars>>

TableInit ==
    /\ FifoOff
    /\ LiveOff
    /\ \E shape \in TableShapes : tbl = Hashtable_New(shape[1], shape[2])
    /\ CacheOff
    /\ PoolOff
    /\ SyncOff
    /\ ConcOff

TableStore(key, value) ==
    /\ tbl.statistics.Store < MaxTableStore
    /\ tbl' = Hashtable_Store(tbl, key, TableHash(key), value).h
    /\ TableOnly

\* Load changes no slot: what it returns is Hashtable_Load(tbl, key, hash)
TableLoad(key) ==
    /\ Hashtable_Load(tbl, key, TableHash(key)).ok \in BOOLEAN
    /\ UNCHANGED vars

TableRemove(key) ==
    /\ tbl' = Hashtable_Remove(tbl, key, TableHash(key)).h
    /\ TableOnly

\* the refs a caller can hold: those Load returns, of a slot in use or 0
TableRefs == {x * ItemSize : x \in {0} \cup DOMAIN tbl.data}

TableRemoveByRef(ref) ==
    /\ tbl' = Hashtable_RemoveByRef(tbl, ref)
    /\ TableOnly

TableReset ==
    /\ tbl' = Hashtable_Reset(tbl)
    /\ TableOnly

\* GetNext changes no slot: what it returns is Hashtable_GetNext(tbl, index)
TableGetNext(index) ==
    /\ Hashtable_GetNext(tbl, index).ok \in BOOLEAN
    /\ UNCHANGED vars

TableNext ==
    \/ \E key \in TableKeys, value \in TableValues : TableStore(key, value)
    \/ \E key \in TableKeys : TableLoad(key)
    \/ \E key \in TableKeys : TableRemove(key)
    \/ \E ref \in TableRefs : TableRemoveByRef(ref)
    \/ TableReset
    \/ \E index \in 0..tbl.count : TableGetNext(index)

SpecTable == TableInit /\ [][TableNext]_vars

\* ------------------------------------------------------------------- the pool
\* A pointer is its address.  stack is the slice of objectCount pointers; the
\* arena data is the objectSize * objectCount bytes from minAddr on.
\* objectCount of New
PoolCounts == {1, 2}
\* where the runtime puts the arena
ArenaBases == {4096}

NewPoolStatistics ==
    [Alloc |-> 0, AllocLockCongested |-> 0, Free |-> 0, FreeBadAddress |-> 0,
     FreeLockCongested |-> 0, MinAvailability |-> 0]

\* Pool.Reset
Pool_Reset(p) ==
    [p EXCEPT !.stack = [i \in 0..(p.objectCount - 1) |-> p.minAddr + i * p.objectSize],
              !.top = p.objectCount,
              !.statistics = [NewPoolStatistics EXCEPT !.MinAvailability = p.objectCount]]

\* unsafepool.New(objectType, objectCount), the arena allocated at base
Pool_New(objectCount, base) ==
    Pool_Reset([top |-> 0,
                stack |-> [i \in 0..(objectCount - 1) |-> 0],
                objectSize |-> ObjectSize,
                objectCount |-> objectCount,
                maxAddr |-> base + ObjectSize * (objectCount - 1),
                minAddr |-> base,
                statistics |-> NewPoolStatistics])

\* Pool.Availability
Pool_Availability(p) == p.top

\* Pool.Alloc: the pool after the call, the pointer (0 is nil) and ok
Pool_Alloc_noPop(p) ==
    IF p.top - 1 >= 0 THEN [p |-> p, ptr |-> p.stack[p.top - 1], ok |-> TRUE]
    ELSE [p |-> p, ptr |-> 0, ok |-> FALSE]

Pool_Alloc(p) ==
    LET p1 == [p EXCEPT !.statistics.Alloc = @ + 1]
        top == p.top - 1
        min == IF p.statistics.MinAvailability > top THEN top
               ELSE p.statistics.MinAvailability
    IN IF top >= 0
       THEN [p |-> [p1 EXCEPT !.statistics.MinAvailability = min, !.top = top],
             ptr |-> p.stack[top], ok |-> TRUE]
       ELSE [p |-> p1, ptr |-> 0, ok |-> FALSE]

\* Pool.Free(ptr): the pool after the call and ok; fault when p.stack[top] is
\* past the end of the slice
Pool_Free(p, ptr) ==
    IF ptr < p.minAddr \/ ptr > p.maxAddr
    THEN [p |-> [p EXCEPT !.statistics.FreeBadAddress = @ + 1],
          ok |-> FALSE, fault |-> FALSE]
    ELSE LET p1 == [p EXCEPT !.statistics.Free = @ + 1]
         IN IF p.top \notin DOMAIN p.stack
            THEN [p |-> p1, ok |-> FALSE, fault |-> TRUE]
            ELSE [p |-> [p1 EXCEPT !.stack[p.top] = ptr, !.top = p.top + 1],
                  ok |-> TRUE, fault |-> FALSE]

\* Pool.AllocSync with no other call running: the loop's first CAS succeeds
Pool_AllocSync(p) ==
    LET p1 == [p EXCEPT !.statistics.Alloc = @ + 1]
        top == p.top
        min == IF p.statistics.MinAvailability > top THEN top
               ELSE p.statistics.MinAvailability
    IN IF top > 0
       THEN [p |-> [p1 EXCEPT !.statistics.MinAvailability = min, !.top = top - 1],
             ptr |-> p.stack[top - 1], ok |-> TRUE]
       ELSE [p |-> p1, ptr |-> 0, ok |-> FALSE]

\* Pool.FreeSync(ptr) with no other call running: the first CAS succeeds, and
\* top is already incremented when the store to p.stack[top] faults
Pool_FreeSync(p, ptr) ==
    IF ptr < p.minAddr \/ ptr > p.maxAddr
    THEN [p |-> [p EXCEPT !.statistics.FreeBadAddress = @ + 1],
          ok |-> FALSE, fault |-> FALSE]
    ELSE LET p1 == [p EXCEPT !.statistics.Free = @ + 1, !.top = p.top + 1]
         IN IF p.top \notin DOMAIN p.stack
            THEN [p |-> p1, ok |-> FALSE, fault |-> TRUE]
            ELSE [p |-> [p1 EXCEPT !.stack[p.top] = ptr], ok |-> TRUE, fault |-> FALSE]

\* Pool.Belongs(ptr); the subtraction is of uintptr and is reached with
\* ptr >= minAddr only as far as the result goes
Pool_Belongs(p, ptr) ==
    /\ ptr >= p.minAddr
    /\ ptr <= p.maxAddr
    /\ (ptr - p.minAddr) % p.objectSize = 0

\* the blocks of the arena
Blocks(p) == {p.minAddr + i * p.objectSize : i \in 0..(p.objectCount - 1)}

\* the pointers Free is called with: the blocks, nil, the block-sized steps
\* below and above the arena, and two addresses inside a block
PoolPointers(p) ==
    Blocks(p) \cup {0, p.minAddr - p.objectSize, p.maxAddr + p.objectSize,
                    p.minAddr + 1, p.maxAddr + 1}

PoolOnly == UNCHANGED <<cacheVars, tableVars, syncVars, concVars, fifoVars, liveVars>>

PoolInit ==
    /\ \E objectCount \in PoolCounts, base \in ArenaBases :
          pool = Pool_New(objectCount, base)
    /\ fault = FALSE
    /\ lent = {}
    /\ clean = TRUE
    /\ given = {}
    /\ CacheOff
    /\ TableOff
    /\ FifoOff
    /\ LiveOff
    /\ SyncOff
    /\ ConcOff

\* Alloc or AllocSync, as sync tells
PoolAlloc(sync) ==
    LET r == IF sync THEN Pool_AllocSync(pool) ELSE Pool_Alloc(pool)
    IN /\ ~fault
       /\ pool.statistics.Alloc < MaxPoolAlloc
       /\ pool' = r.p
       /\ lent' = IF r.ok THEN lent \cup {r.ptr} ELSE lent
       /\ given' = IF r.ok THEN given \cup {r.ptr} ELSE given
       /\ UNCHANGED <<fault, clean>>
       /\ PoolOnly

\* Free or FreeSync, as sync tells
PoolFree(ptr, sync) ==
    LET r == IF sync THEN Pool_FreeSync(pool, ptr) ELSE Pool_Free(pool, ptr)
    IN /\ ~fault
       /\ pool.statistics.Free + pool.statistics.FreeBadAddress < MaxPoolFree
       /\ pool' = r.p
       /\ fault' = r.fault
       /\ lent' = IF r.ok THEN lent \ {ptr} ELSE lent
       /\ clean' = (clean /\ ptr \in lent)
       /\ UNCHANGED given
       /\ PoolOnly

\* Reset takes every block back
PoolReset ==
    /\ ~fault
    /\ pool' = Pool_Reset(pool)
    /\ lent' = {}
    /\ clean' = TRUE
    /\ UNCHANGED given
    /\ UNCHANGED fault
    /\ PoolOnly

PoolNext ==
    \/ \E sync \in BOOLEAN : PoolAlloc(sync)
    \/ \E ptr \in PoolPointers(pool), sync \in BOOLEAN : PoolFree(ptr, sync)
    \/ PoolReset

SpecPool == PoolInit /\ [][PoolNext]_vars

\* ------------------------------------- the pool with concurrent callers
\* AllocSync and FreeSync run as the steps between their accesses to p.top
\* and p.stack.  The counters of Statistics are left out: they are written
\* without synchronisation and decide nothing.
Callers == {1, 2}

Idle == [pc |-> "idle", top |-> 0, seen |-> 0, ptr |-> 0]

SyncOnly == UNCHANGED <<cacheVars, tableVars, lent, clean, given, concVars, fifoVars, liveVars>>

SyncInit ==
    /\ \E objectCount \in PoolCounts, base \in ArenaBases :
          pool = Pool_New(objectCount, base)
    /\ fault = FALSE
    /\ lent = {}
    /\ clean = TRUE
    /\ given = {}
    /\ pth = [t \in Callers |-> Idle]
    /\ held = [t \in Callers |-> {}]
    /\ twice = FALSE
    /\ calls = 0
    /\ CacheOff
    /\ TableOff
    /\ FifoOff
    /\ LiveOff
    /\ ConcOff

\* caller t calls AllocSync
AllocSyncCall(t) ==
    /\ ~fault /\ pth[t].pc = "idle" /\ calls < MaxSyncCalls
    /\ pth' = [pth EXCEPT ![t] = [Idle EXCEPT !.pc = "alloc_loop"]]
    /\ calls' = calls + 1
    /\ UNCHANGED <<pool, fault, held, twice>>
    /\ SyncOnly

\* for p.top > 0: the loop test reads p.top; return nil, false when it fails
AllocSyncLoop(t) ==
    /\ ~fault /\ pth[t].pc = "alloc_loop"
    /\ pth' = [pth EXCEPT ![t] = IF pool.top > 0
                                 THEN [@ EXCEPT !.pc = "alloc_top", !.seen = pool.top]
                                 ELSE Idle]
    /\ UNCHANGED <<pool, fault, held, twice, calls>>
    /\ SyncOnly

\* top := p.top: a second plain read of p.top, which the build may serve with
\* the value the loop test read or with a new load
AllocSyncTop(t) ==
    /\ ~fault /\ pth[t].pc = "alloc_top"
    /\ \E top \in {pth[t].seen, pool.top} :
          pth' = [pth EXCEPT ![t] = [@ EXCEPT !.pc = "alloc_cas", !.top = top]]
    /\ UNCHANGED <<pool, fault, held, twice, calls>>
    /\ SyncOnly

\* atomic.CompareAndSwapInt32(&p.top, top, top-1)
AllocSyncCAS(t) ==
    /\ ~fault /\ pth[t].pc = "alloc_cas"
    /\ IF pool.top = pth[t].top
       THEN /\ pool' = [pool EXCEPT !.top = pth[t].top - 1]
            /\ pth' = [pth EXCEPT ![t] = [@ EXCEPT !.pc = "alloc_take"]]
       ELSE /\ pth' = [pth EXCEPT ![t] = [@ EXCEPT !.pc = "alloc_loop"]]
            /\ UNCHANGED pool
    /\ UNCHANGED <<fault, held, twice, calls>>
    /\ SyncOnly

\* return p.stack[top-1], true
AllocSyncTake(t) ==
    /\ ~fault /\ pth[t].pc = "alloc_take"
    /\ IF pth[t].top - 1 \in DOMAIN pool.stack
       THEN LET ptr == pool.stack[pth[t].top - 1]
            IN /\ held' = [held EXCEPT ![t] = @ \cup {ptr}]
               /\ twice' = (twice \/ \E u \in Callers : ptr \in held[u])
               /\ UNCHANGED fault
       ELSE /\ fault' = TRUE
            /\ UNCHANGED <<held, twice>>
    /\ pth' = [pth EXCEPT ![t] = Idle]
    /\ UNCHANGED <<pool, calls>>
    /\ SyncOnly

\* caller t calls FreeSync with a block it holds; the range test passes
FreeSyncCall(t, ptr) ==
    /\ ~fault /\ pth[t].pc = "idle" /\ calls < MaxSyncCalls
    /\ ptr \in held[t]
    /\ ~(ptr < pool.minAddr \/ ptr > pool.maxAddr)
    /\ held' = [held EXCEPT ![t] = @ \ {ptr}]
    /\ pth' = [pth EXCEPT ![t] = [Idle EXCEPT !.pc = "free_top", !.ptr = ptr]]
    /\ calls' = calls + 1
    /\ UNCHANGED <<pool, fault, twice>>
    /\ SyncOnly

\* top := p.top
FreeSyncTop(t) ==
    /\ ~fault /\ pth[t].pc = "free_top"
    /\ pth' = [pth EXCEPT ![t] = [@ EXCEPT !.pc = "free_cas", !.top = pool.top]]
    /\ UNCHANGED <<pool, fault, held, twice, calls>>
    /\ SyncOnly

\* atomic.CompareAndSwapInt32(&p.top, top, top+1)
FreeSyncCAS(t) ==
    /\ ~fault /\ pth[t].pc = "free_cas"
    /\ IF pool.top = pth[t].top
       THEN /\ pool' = [pool EXCEPT !.top = pth[t].top + 1]
            /\ pth' = [pth EXCEPT ![t] = [@ EXCEPT !.pc = "free_put"]]
       ELSE /\ pth' = [pth EXCEPT ![t] = [@ EXCEPT !.pc = "free_top"]]
            /\ UNCHANGED pool
    /\ UNCHANGED <<fault, held, twice, calls>>
    /\ SyncOnly

\* p.stack[top] = ptr; return true
FreeSyncPut(t) ==
    /\ ~fault /\ pth[t].pc = "free_put"
    /\ IF pth[t].top \in DOMAIN pool.stack
       THEN /\ pool' = [pool EXCEPT !.stack[pth[t].top] = pth[t].ptr]
            /\ UNCHANGED fault
       ELSE /\ fault' = TRUE
            /\ UNCHANGED pool
    /\ pth' = [pth EXCEPT ![t] = Idle]
    /\ UNCHANGED <<held, twice, calls>>
    /\ SyncOnly

SyncNext ==
    \E t \in Callers :
        \/ AllocSyncCall(t)
        \/ AllocSyncLoop(t)
        \/ AllocSyncTop(t)
        \/ AllocSyncCAS(t)
        \/ AllocSyncTake(t)
        \/ \E ptr \in Blocks(pool) : FreeSyncCall(t, ptr)
        \/ FreeSyncTop(t)
        \/ FreeSyncCAS(t)
        \/ FreeSyncPut(t)

SpecPoolSync == SyncInit /\ [][SyncNext]_vars

\* ------------------------------------ the cache with concurrent callers
\* Store, Load, EvictByRef and Evict run as the steps between their accesses
\* to what the callers share: the mutex of a shard, the shard's table, and
\* the fifo, which all shards share.  An access to the table is joined to the
\* step after it, for the table is reached under the shard's mutex only.  The
\* counters of Statistics are added to in one step each.
Threads == {1, 2}

ConcKeys == {0, 1, 2}

ConcObjects == {0, 1}

ConcEvictTimes == {3}

ConcConfigurations ==
    {[Size |-> 1, Shards |-> 0, TTL |-> 2, Collisions |-> 0, LoadFactor |-> 0]}

\* a caller outside every call; the fields are the locals of the calls
Resting ==
    [pc |-> "rest", key |-> 0, o |-> 0, now |-> 0, force |-> FALSE,
     shardIdx |-> 0, ref |-> 0, found |-> FALSE, expired |-> FALSE,
     newTail |-> 0, at |-> 0, newHead |-> 0, move |-> FALSE, ok |-> FALSE, ent |-> 0]

\* sync.RWMutex: Lock returns when no caller is inside Lock..Unlock or
\* RLock..RUnlock
CanLock_always(m) == TRUE

CanLock_shared(m) == m.w = {}

CanLock(m) == m.w = {} /\ m.r = {}

\* sync.RWMutex: RLock returns when no caller is inside Lock..Unlock
CanRLock(m) == m.w = {}

ConcOnly == UNCHANGED <<gring, stored, byRef, called, tableVars, poolVars, syncVars, fifoVars, liveVars>>

ConcInit ==
    /\ \E configuration \in ConcConfigurations, numCPU \in CPUs :
          c = Cache_New(configuration, numCPU)
    /\ gring = <<>>
    /\ stored = {}
    /\ byRef = 0
    /\ called = {}
    /\ cth = [t \in Threads |-> Resting]
    /\ mutex = [i \in DOMAIN c.shards |-> [w |-> {}, r |-> {}]]
    /\ entry = [i \in DOMAIN c.shards |-> <<>>]
    /\ nextId = 1
    /\ evicted = {}
    /\ removed = {}
    /\ again = FALSE
    /\ started = 0
    /\ added = {}
    /\ TableOff
    /\ FifoOff
    /\ LiveOff
    /\ PoolOff
    /\ SyncOff

\* the entry in slot index of shard shardIdx leaves the table
Dropped(shardIdx, index) ==
    [entry EXCEPT ![shardIdx] = [j \in DOMAIN @ \ {index} |-> @[j]]]

\* ---- Store
StoreCall(t, key, o, now) ==
    /\ cth[t].pc = "rest" /\ started < MaxCacheCalls
    /\ cth' = [cth EXCEPT ![t] = [Resting EXCEPT !.pc = "store_lock", !.key = key,
                                     !.o = o, !.now = now, !.shardIdx = shardOf(key)]]
    /\ started' = started + 1
    /\ UNCHANGED <<c, mutex, entry, nextId, evicted, removed, again>>
    /\ UNCHANGED added
    /\ ConcOnly

\* shard.mutex.Lock()
StoreLock(t) ==
    /\ cth[t].pc = "store_lock"
    /\ CanLock(mutex[cth[t].shardIdx])
    /\ mutex' = [mutex EXCEPT ![cth[t].shardIdx].w = @ \cup {t}]
    /\ cth' = [cth EXCEPT ![t].pc = "store_table"]
    /\ UNCHANGED <<c, entry, nextId, evicted, removed, again, started>>
    /\ UNCHANGED added
    /\ ConcOnly

\* shard.table.Store(key, hash, iValue), and of c.fifo.add(key):
\* newTail := s.inc(s.tail); if s.head != newTail
StoreTable(t) ==
    LET me == cth[t]
        i == [o |-> me.o, expirationMs |-> Add32(me.now, c.configuration.TTL)]
        r == Hashtable_Store(c.shards[me.shardIdx].table, me.key, me.key, ItemToValue(i))
        newTail == itemFifo_inc(c.fifo, c.fifo.tail)
    IN /\ me.pc = "store_table"
       /\ c' = [c EXCEPT !.shards[me.shardIdx].table = r.h]
       /\ entry' = IF r.ok
                   THEN [entry EXCEPT ![me.shardIdx] =
                            [j \in DOMAIN @ \cup {r.index} |->
                                IF j = r.index THEN nextId ELSE @[j]]]
                   ELSE entry
       /\ nextId' = IF r.ok THEN nextId + 1 ELSE nextId
       /\ cth' = [cth EXCEPT ![t] =
                     IF c.fifo.head # newTail
                     THEN [@ EXCEPT !.pc = "store_data", !.newTail = newTail]
                     ELSE [@ EXCEPT !.pc = "store_unlock", !.ok = FALSE]]
       /\ UNCHANGED <<mutex, evicted, removed, again, started>>
       /\ UNCHANGED added
       /\ ConcOnly

\* s.data[s.tail] = key
StoreData(t) ==
    /\ cth[t].pc = "store_data"
    /\ c' = [c EXCEPT !.fifo.data[c.fifo.tail] = cth[t].key]
    /\ cth' = [cth EXCEPT ![t].pc = "store_tail"]
    /\ UNCHANGED <<mutex, entry, nextId, evicted, removed, again, started>>
    /\ UNCHANGED added
    /\ ConcOnly

\* s.tail = newTail; return true
StoreTail(t) ==
    /\ cth[t].pc = "store_tail"
    /\ c' = [c EXCEPT !.fifo.tail = cth[t].newTail]
    /\ cth' = [cth EXCEPT ![t] = [@ EXCEPT !.pc = "store_unlock", !.ok = TRUE]]
    /\ UNCHANGED <<mutex, entry, nextId, evicted, removed, again, started>>
    /\ UNCHANGED added
    /\ ConcOnly

\* s.data[s.tail] = key and s.tail = newTail are plain stores with no
\* synchronisation towards the callers of pick, which hold no mutex: the
\* store to s.tail may become visible before the store to s.data
StoreTailFirst(t) ==
    /\ cth[t].pc = "store_data"
    /\ c' = [c EXCEPT !.fifo.tail = cth[t].newTail]
    /\ cth' = [cth EXCEPT ![t] = [@ EXCEPT !.pc = "store_late", !.at = c.fifo.tail]]
    /\ UNCHANGED <<mutex, entry, nextId, evicted, removed, again, started>>
    /\ UNCHANGED added
    /\ ConcOnly

\* the store s.data[s.tail] = key becomes visible; return true
StoreLate(t) ==
    /\ cth[t].pc = "store_late"
    /\ c' = [c EXCEPT !.fifo.data[cth[t].at] = cth[t].key]
    /\ cth' = [cth EXCEPT ![t] = [@ EXCEPT !.pc = "store_unlock", !.ok = TRUE]]
    /\ UNCHANGED <<mutex, entry, nextId, evicted, removed, again, started>>
    /\ UNCHANGED added
    /\ ConcOnly

\* count := c.fifo.Len(); shard.mutex.Unlock(); MaxOccupancy; return ok
StoreUnlock(t) ==
    LET count == itemFifo_Len(c.fifo)
    IN /\ cth[t].pc = "store_unlock"
       /\ mutex' = [mutex EXCEPT ![cth[t].shardIdx].w = @ \ {t}]
       /\ c' = [c EXCEPT !.statistics.MaxOccupancy = IF @ < count THEN count ELSE @]
       /\ cth' = [cth EXCEPT ![t] = Resting]
       /\ added' = IF cth[t].ok THEN added \cup {cth[t].key} ELSE added
       /\ UNCHANGED <<entry, nextId, evicted, removed, again, started>>
       /\ ConcOnly

\* ---- Load
LoadCall(t, key) ==
    /\ cth[t].pc = "rest" /\ started < MaxCacheCalls
    /\ cth' = [cth EXCEPT ![t] = [Resting EXCEPT !.pc = "load_rlock", !.key = key,
                                     !.shardIdx = shardOf(key)]]
    /\ started' = started + 1
    /\ UNCHANGED <<c, mutex, entry, nextId, evicted, removed, again>>
    /\ UNCHANGED added
    /\ ConcOnly

\* shard.mutex.RLock()
LoadRLock(t) ==
    /\ cth[t].pc = "load_rlock"
    /\ CanRLock(mutex[cth[t].shardIdx])
    /\ mutex' = [mutex EXCEPT ![cth[t].shardIdx].r = @ \cup {t}]
    /\ cth' = [cth EXCEPT ![t].pc = "load_table"]
    /\ UNCHANGED <<c, entry, nextId, evicted, removed, again, started>>
    /\ UNCHANGED added
    /\ ConcOnly

\* iValue, ok, hashtableRef := shard.table.Load(key, hash)
LoadTable(t) ==
    LET me == cth[t]
        l == Hashtable_Load(c.shards[me.shardIdx].table, me.key, me.key)
    IN /\ me.pc = "load_table"
       /\ cth' = [cth EXCEPT ![t] = [@ EXCEPT !.pc = "load_runlock", !.found = l.ok,
                                        !.ref = l.ref, !.o = ValueToItem(l.value).o]]
       /\ UNCHANGED <<c, mutex, entry, nextId, evicted, removed, again, started>>
       /\ UNCHANGED added
       /\ ConcOnly

\* shard.mutex.RUnlock(); return i.o, ref, ok
LoadRUnlock(t) ==
    /\ cth[t].pc = "load_runlock"
    /\ mutex' = [mutex EXCEPT ![cth[t].shardIdx].r = @ \ {t}]
    /\ cth' = [cth EXCEPT ![t] = Resting]
    /\ UNCHANGED <<c, entry, nextId, evicted, removed, again, started>>
    /\ UNCHANGED added
    /\ ConcOnly

\* ---- EvictByRef
ByRefCall(t, ref) ==
    /\ cth[t].pc = "rest" /\ started < MaxCacheCalls
    /\ cth' = [cth EXCEPT ![t] = [Resting EXCEPT !.pc = "byref_lock", !.ref = ref.lo,
                                     !.shardIdx = ref.hi]]
    /\ started' = started + 1
    /\ UNCHANGED <<c, mutex, entry, nextId, evicted, removed, again>>
    /\ UNCHANGED added
    /\ ConcOnly

\* shard.mutex.Lock()
ByRefLock(t) ==
    /\ cth[t].pc = "byref_lock"
    /\ CanLock(mutex[cth[t].shardIdx])
    /\ mutex' = [mutex EXCEPT ![cth[t].shardIdx].w = @ \cup {t}]
    /\ cth' = [cth EXCEPT ![t].pc = "byref_remove"]
    /\ UNCHANGED <<c, entry, nextId, evicted, removed, again, started>>
    /\ UNCHANGED added
    /\ ConcOnly

\* shard.table.RemoveByRef(hashtableRef)
ByRefRemove(t) ==
    LET me == cth[t]
        index == me.ref \div ItemSize
    IN /\ me.pc = "byref_remove"
       /\ c' = [c EXCEPT !.shards[me.shardIdx].table = Hashtable_RemoveByRef(@, me.ref)]
       /\ removed' = IF index \in DOMAIN entry[me.shardIdx]
                     THEN removed \cup {entry[me.shardIdx][index]} ELSE removed
       /\ entry' = Dropped(me.shardIdx, index)
       /\ cth' = [cth EXCEPT ![t].pc = "byref_unlock"]
       /\ UNCHANGED <<mutex, nextId, evicted, again, started>>
       /\ UNCHANGED added
       /\ ConcOnly

\* shard.mutex.Unlock()
ByRefUnlock(t) ==
    /\ cth[t].pc = "byref_unlock"
    /\ mutex' = [mutex EXCEPT ![cth[t].shardIdx].w = @ \ {t}]
    /\ cth' = [cth EXCEPT ![t] = Resting]
    /\ UNCHANGED <<c, entry, nextId, evicted, removed, again, started>>
    /\ UNCHANGED added
    /\ ConcOnly

\* ---- Evict
\* c.statistics.EvictCalled += 1
EvictCall(t, now, force) ==
    /\ cth[t].pc = "rest" /\ started < MaxCacheCalls
    /\ c' = [c EXCEPT !.statistics.EvictCalled = @ + 1]
    /\ cth' = [cth EXCEPT ![t] = [Resting EXCEPT !.pc = "evict_pick", !.now = now,
                                     !.force = force]]
    /\ started' = started + 1
    /\ UNCHANGED <<mutex, entry, nextId, evicted, removed, again>>
    /\ UNCHANGED added
    /\ ConcOnly

\* c.fifo.pick(): if s.head != s.tail; else EvictPeekFailed and return
EvictPick(t) ==
    /\ cth[t].pc = "evict_pick"
    /\ IF c.fifo.head # c.fifo.tail
       THEN /\ cth' = [cth EXCEPT ![t].pc = "evict_key"]
            /\ UNCHANGED c
       ELSE /\ cth' = [cth EXCEPT ![t] = Resting]
            /\ c' = [c EXCEPT !.statistics.EvictPeekFailed = @ + 1]
    /\ UNCHANGED <<mutex, entry, nextId, evicted, removed, again, started>>
    /\ UNCHANGED added
    /\ ConcOnly

\* key = s.data[s.head]
EvictKey(t) ==
    LET key == c.fifo.data[c.fifo.head]
    IN /\ cth[t].pc = "evict_key"
       /\ cth' = [cth EXCEPT ![t] = [@ EXCEPT !.pc = "evict_lock", !.key = key,
                                        !.shardIdx = shardOf(key)]]
       /\ UNCHANGED <<c, mutex, entry, nextId, evicted, removed, again, started>>
       /\ UNCHANGED added
       /\ ConcOnly

\* shard.mutex.Lock()
EvictLock(t) ==
    /\ cth[t].pc = "evict_lock"
    /\ CanLock(mutex[cth[t].shardIdx])
    /\ mutex' = [mutex EXCEPT ![cth[t].shardIdx].w = @ \cup {t}]
    /\ cth' = [cth EXCEPT ![t].pc = "evict_table"]
    /\ UNCHANGED <<c, entry, nextId, evicted, removed, again, started>>
    /\ UNCHANGED added
    /\ ConcOnly

\* shard.table.Load(key, hash), the counters, and of c.fifo.remove():
\* newHead := s.inc(s.head); if s.head != s.tail
EvictTable(t) ==
    LET me == cth[t]
        l == Hashtable_Load(c.shards[me.shardIdx].table, me.key, me.key)
        i == ValueToItem(l.value)
        index == l.ref \div ItemSize
        evict == l.ok /\ (isExpired(i.expirationMs, me.now) \/ me.force)
    IN /\ me.pc = "evict_table"
       /\ c' = [c EXCEPT !.statistics =
                   IF ~l.ok THEN [@ EXCEPT !.EvictLookupFailed = @ + 1]
                   ELSE IF evict THEN [@ EXCEPT !.EvictExpired = @ + 1, !.EvictForce = @ + 1]
                   ELSE [@ EXCEPT !.EvictNotExpired = @ + 1]]
       /\ cth' = [cth EXCEPT ![t] =
                     IF l.ok /\ ~evict
                     THEN [@ EXCEPT !.pc = "evict_unlock", !.o = 0, !.expired = FALSE]
                     ELSE [@ EXCEPT !.pc = "evict_head",
                                    !.found = l.ok, !.ref = l.ref,
                                    !.o = IF l.ok THEN i.o ELSE 0, !.expired = l.ok,
                                    !.ent = IF l.ok /\ index \in DOMAIN entry[me.shardIdx]
                                            THEN entry[me.shardIdx][index] ELSE 0,
                                    !.newHead = itemFifo_inc(c.fifo, c.fifo.head),
                                    !.move = (c.fifo.head # c.fifo.tail)]]
       /\ UNCHANGED <<mutex, entry, nextId, evicted, removed, again, started>>
       /\ UNCHANGED added
       /\ ConcOnly

\* of c.fifo.remove(): s.head = newHead; then shard.table.RemoveByRef(ref)
\* when the entry was found
EvictHead(t) ==
    LET me == cth[t]
    IN /\ me.pc = "evict_head"
       /\ c' = [c EXCEPT !.fifo.head = IF me.move THEN me.newHead ELSE @,
                         !.shards[me.shardIdx].table =
                             IF me.found THEN Hashtable_RemoveByRef(@, me.ref) ELSE @]
       /\ entry' = IF me.found THEN Dropped(me.shardIdx, me.ref \div ItemSize) ELSE entry
       /\ cth' = [cth EXCEPT ![t].pc = "evict_unlock"]
       /\ UNCHANGED <<mutex, nextId, evicted, removed, again, started>>
       /\ UNCHANGED added
       /\ ConcOnly

\* shard.mutex.Unlock(); return o, expired
EvictUnlock(t) ==
    LET me == cth[t]
    IN /\ me.pc = "evict_unlock"
       /\ mutex' = [mutex EXCEPT ![me.shardIdx].w = @ \ {t}]
       /\ evicted' = IF me.expired THEN evicted \cup {me.ent} ELSE evicted
       /\ again' = (again \/ (me.expired /\ me.ent \in evicted \cup removed))
       /\ cth' = [cth EXCEPT ![t] = Resting]
       /\ UNCHANGED <<c, entry, nextId, removed, started>>
       /\ UNCHANGED added
       /\ ConcOnly

ConcNext ==
    \E t \in Threads :
        \/ \E key \in ConcKeys, o \in ConcObjects : StoreCall(t, key, o, StoreTime(o))
        \/ StoreLock(t)
        \/ StoreTable(t)
        \/ StoreData(t)
        \/ StoreTail(t)
        \/ StoreTailFirst(t)
        \/ StoreLate(t)
        \/ StoreUnlock(t)
        \/ \E key \in ConcKeys : LoadCall(t, key)
        \/ LoadRLock(t)
        \/ LoadTable(t)
        \/ LoadRUnlock(t)
        \/ \E ref \in HeldRefs : ByRefCall(t, ref)
        \/ ByRefLock(t)
        \/ ByRefRemove(t)
        \/ ByRefUnlock(t)
        \/ \E now \in ConcEvictTimes, force \in BOOLEAN : EvictCall(t, now, force)
        \/ EvictPick(t)
        \/ EvictKey(t)
        \/ EvictLock(t)
        \/ EvictTable(t)
        \/ EvictHead(t)
        \/ EvictUnlock(t)

SpecConc == ConcInit /\ [][ConcNext]_vars

\* the callers call Store only
StoresNext ==
    \E t \in Threads :
        \/ \E key \in ConcKeys, o \in ConcObjects : StoreCall(t, key, o, StoreTime(o))
        \/ StoreLock(t)
        \/ StoreTable(t)
        \/ StoreData(t)
        \/ StoreTail(t)
        \/ StoreTailFirst(t)
        \/ StoreLate(t)
        \/ StoreUnlock(t)

SpecStores == ConcInit /\ [][StoresNext]_vars

\* caller 1 calls Store with keys of shard 1, caller 2 calls Evict unforced
Storer == 1

Evicter == 2

StorerKeys == {1}

StoreEvictNext ==
    \/ \E key \in StorerKeys, o \in ConcObjects : StoreCall(Storer, key, o, StoreTime(o))
    \/ StoreLock(Storer)
    \/ StoreTable(Storer)
    \/ StoreData(Storer)
    \/ StoreTail(Storer)
    \/ StoreTailFirst(Storer)
    \/ StoreLate(Storer)
    \/ StoreUnlock(Storer)
    \/ \E now \in ConcEvictTimes : EvictCall(Evicter, now, FALSE)
    \/ EvictPick(Evicter)
    \/ EvictKey(Evicter)
    \/ EvictLock(Evicter)
    \/ EvictTable(Evicter)
    \/ EvictHead(Evicter)
    \/ EvictUnlock(Evicter)

SpecStoreEvict == ConcInit /\ [][StoreEvictNext]_vars

\* The callers call Evict only, on a cache in which one caller has stored,
\* one call after the other, key 0 and then a second key, at time 0.
SecondKeys == {1, 2}

EvictsInit ==
    /\ \E configuration \in ConcConfigurations, numCPU \in CPUs, key \in SecondKeys :
          /\ c = Cache_Store(Cache_Store(Cache_New(configuration, numCPU), 0, 0, 0).c,
                             key, 0, 0).c
          /\ added = {0, key}
    /\ gring = <<>>
    /\ stored = {}
    /\ byRef = 0
    /\ called = {}
    /\ cth = [t \in Threads |-> Resting]
    /\ mutex = [i \in DOMAIN c.shards |-> [w |-> {}, r |-> {}]]
    /\ entry = [i \in DOMAIN c.shards |->
                   [x \in DOMAIN c.shards[i].table.data |->
                       IF c.shards[i].table.data[x].key = 0 THEN 1 ELSE 2]]
    /\ nextId = 3
    /\ evicted = {}
    /\ removed = {}
    /\ again = FALSE
    /\ started = 0
    /\ TableOff
    /\ FifoOff
    /\ LiveOff
    /\ PoolOff
    /\ SyncOff

EvictsNext ==
    \E t \in Threads :
        \/ \E now \in ConcEvictTimes, force \in BOOLEAN : EvictCall(t, now, force)
        \/ EvictPick(t)
        \/ EvictKey(t)
        \/ EvictLock(t)
        \/ EvictTable(t)
        \/ EvictHead(t)
        \/ EvictUnlock(t)

SpecEvicts == EvictsInit /\ [][EvictsNext]_vars

\* ------------------------------- the cache with a fifo of two keys
\* The configurations of Configurations whose fifo takes two keys, so that a
\* key without a table entry can be queued next to a key with one.
FrameConfigurations ==
    {[Size |-> 2, Shards |-> 1, TTL |-> 2, Collisions |-> 0, LoadFactor |-> 100],
     [Size |-> 1, Shards |-> 0, TTL |-> 2, Collisions |-> 0, LoadFactor |-> 0]}

FrameInit ==
    /\ \E configuration \in FrameConfigurations, numCPU \in CPUs :
          c = Cache_New(configuration, numCPU)
    /\ gring = <<>>
    /\ stored = {}
    /\ byRef = 0
    /\ called = {}
    /\ TableOff
    /\ FifoOff
    /\ LiveOff
    /\ PoolOff
    /\ SyncOff
    /\ ConcOff

SpecFrame == FrameInit /\ [][Next]_vars

\* ----------------------------------- the cache over the range of TimeMs
\* One key is stored and evicted unforced, with the TTL and the times drawn
\* from the ends and the middle of int32.
ExpireTTLs == {0, 1, 2, MaxInt32 - 1, MaxInt32}

ExpireTimes == {MinInt32, MinInt32 + 1, -1, 0, 1, 2, MaxInt32 - 1, MaxInt32}

ExpireInit ==
    /\ \E ttl \in ExpireTTLs :
          c = Cache_New([Size |-> 1, Shards |-> 1, TTL |-> ttl, Collisions |-> 0,
                         LoadFactor |-> 100], 1)
    /\ gring = <<>>
    /\ stored = {}
    /\ byRef = 0
    /\ called = {}
    /\ TableOff
    /\ FifoOff
    /\ LiveOff
    /\ PoolOff
    /\ SyncOff
    /\ ConcOff

ExpireNext ==
    \/ \E now \in ExpireTimes : Store(0, 0, now)
    \/ \E now \in ExpireTimes : Evict(now, FALSE)

SpecExpire == ExpireInit /\ [][ExpireNext]_vars

\* ------------------------------------------------------ the fifo on its own
FifoSizes == {1, 2, 3}

FifoKeys == {0, 1, 2}

FifoOnly == UNCHANGED <<cacheVars, tableVars, poolVars, syncVars, concVars, liveVars>>

FifoInit ==
    /\ \E size \in FifoSizes : fifo = newFifo(size)
    /\ queue = <<>>
    /\ LiveOff
    /\ CacheOff
    /\ TableOff
    /\ PoolOff
    /\ SyncOff
    /\ ConcOff

FifoAdd(key) ==
    LET r == itemFifo_add(fifo, key)
    IN /\ fifo' = r.s
       /\ queue' = IF r.ok THEN Append(queue, key) ELSE queue
       /\ FifoOnly

FifoRemove ==
    LET r == itemFifo_remove(fifo)
    IN /\ fifo' = r.s
       /\ queue' = IF r.ok THEN Tail(queue) ELSE queue
       /\ FifoOnly

\* pick changes nothing: what it returns is itemFifo_pick(fifo)
FifoPick ==
    /\ itemFifo_pick(fifo).ok \in BOOLEAN
    /\ UNCHANGED vars

FifoNext ==
    \/ \E key \in FifoKeys : FifoAdd(key)
    \/ FifoRemove
    \/ FifoPick

SpecFifo == FifoInit /\ [][FifoNext]_vars

\* --------------------------- the cache with a configured probe budget
\* Configurations with Collisions set: the default (0) and a budget of one
\* probe; the fifo takes two keys and the one shard table has two home slots.
ProbeConfigurations ==
    {[Size |-> 2, Shards |-> 1, TTL |-> 2, Collisions |-> 0, LoadFactor |-> 100],
     [Size |-> 2, Shards |-> 1, TTL |-> 2, Collisions |-> 1, LoadFactor |-> 100]}

ProbeInit ==
    /\ \E configuration \in ProbeConfigurations, numCPU \in CPUs :
          c = Cache_New(configuration, numCPU)
    /\ gring = <<>>
    /\ stored = {}
    /\ byRef = 0
    /\ called = {}
    /\ TableOff
    /\ FifoOff
    /\ LiveOff
    /\ PoolOff
    /\ SyncOff
    /\ ConcOff

SpecProbe == ProbeInit /\ [][Next]_vars

\* ------------------------------------ the cache with one shard of two slots
\* One shard table with two home slots and a fifo of two keys: keys 0 and 2
\* share home slot 0, so that removals clear slots that other keys were
\* probed past.
RemovalConfigurations ==
    {[Size |-> 2, Shards |-> 1, TTL |-> 2, Collisions |-> 0, LoadFactor |-> 100]}

RemovalInit ==
    /\ \E configuration \in RemovalConfigurations, numCPU \in CPUs :
          c = Cache_New(configuration, numCPU)
    /\ gring = <<>>
    /\ stored = {}
    /\ byRef = 0
    /\ called = {}
    /\ TableOff
    /\ FifoOff
    /\ LiveOff
    /\ PoolOff
    /\ SyncOff
    /\ ConcOff

SpecRemoval == RemovalInit /\ [][Next]_vars

\* --------------------------- the cache with a caller that evicts for ever
\* One caller stores at the time of its clock, lets the clock advance and
\* calls Evict(clock, false) again and again.  Every Store carries a payload
\* of its own, the number of the Store.
LiveKeys == {0, 1}
LiveTTL == 1
\* the Stores made
MaxLiveStore == 3
\* the last instant of the clock: no Store is made so late that its entry
\* would not have expired by then
MaxClock == 2
\* the Evict calls made in a row without effect: with the fifo empty, or with
\* its head not expired
MaxIdleEvict == 1

LiveOnly == UNCHANGED <<gring, stored, byRef, called, tableVars, poolVars, syncVars,
                        concVars, fifoVars>>

LiveInit ==
    /\ c = Cache_New([Size |-> 2, Shards |-> 1, TTL |-> LiveTTL, Collisions |-> 0,
                      LoadFactor |-> 100], 1)
    /\ gring = <<>>
    /\ stored = {}
    /\ byRef = 0
    /\ called = {}
    /\ clock = 0
    /\ owed = {}
    /\ TableOff
    /\ FifoOff
    /\ PoolOff
    /\ SyncOff
    /\ ConcOff

LiveStore(key) ==
    LET o == TableStores(c, c.shardsMask) + 1
        r == Cache_Store(c, key, o, clock)
    IN /\ o <= MaxLiveStore
       /\ clock + LiveTTL <= MaxClock
       /\ c' = r.c
       /\ owed' = IF r.ok THEN owed \cup {o} ELSE owed
       /\ UNCHANGED clock
       /\ LiveOnly

LiveTick ==
    /\ clock < MaxClock
    /\ clock' = clock + 1
    /\ UNCHANGED <<c, owed>>
    /\ LiveOnly

\* Evict(clock, false); the calls that find the fifo empty or its head not
\* expired are counted up to MaxIdleEvict
LiveEvict ==
    LET r == Cache_Evict(c, clock, FALSE)
    IN /\ r.c.statistics.EvictPeekFailed <= MaxIdleEvict
       /\ r.c.statistics.EvictNotExpired <= MaxIdleEvict
       /\ c' = r.c
       /\ owed' = IF r.expired THEN owed \ {r.o} ELSE owed
       /\ UNCHANGED clock
       /\ LiveOnly

LiveNext ==
    \/ \E key \in LiveKeys : LiveStore(key)
    \/ LiveTick
    \/ LiveEvict

\* the caller keeps calling Evict, and its clock keeps advancing
SpecLive == LiveInit /\ [][LiveNext]_vars /\ WF_vars(LiveTick) /\ WF_vars(LiveEvict)

\* --------------------------------------------------------------------- claims
\* the key at the head of the fifo and its lookup in its shard table
HeadPick == itemFifo_pick(c.fifo)
HeadLoad == Hashtable_Load(c.shards[shardOf(HeadPick.key)].table,
                           HeadPick.key, HeadPick.key)
HeadSlot == HeadLoad.ref \div ItemSize
HeadItem == ValueToItem(HeadLoad.value)

\* C1: in every reachable state, a Store(k, v, t) that returns true is followed
\* by a Load(k) that finds k with payload v.
C1_StoreThenLoad ==
    \A k \in Keys, o \in Objects :
        LET s == Cache_Store(c, k, o, StoreTime(o))
            l == Cache_Load(s.c, k)
        IN s.ok => (l.ok /\ l.o = o)

\* C2: while a key whose Store returned true has not been removed by Evict or
\* EvictByRef, every further Store of that key returns false.
C2_DuplicateRejected ==
    \A k \in stored, o \in Objects : ~Cache_Store(c, k, o, StoreTime(o)).ok

\* C3: when the key at the head of the fifo is in its shard table with
\* expiration e, Evict(now, force) returns expired exactly when force is set or
\* e - now <= 0 as int32; it then returns that entry's payload and removes the
\* entry; e is the time of the Store that made the entry plus the TTL.
C3_EvictWhenExpiredOrForced ==
    \A now \in EvictTimes, force \in BOOLEAN :
        (HeadPick.ok /\ HeadLoad.ok) =>
            LET r == Cache_Evict(c, now, force)
                e == HeadItem.expirationMs
                table == r.c.shards[shardOf(HeadPick.key)].table
            IN /\ r.expired <=> (force \/ Sub32(e, now) <= 0)
               /\ r.expired => (r.o = HeadItem.o /\ ~inUse(slot(table, HeadSlot)))
               /\ ~r.expired => (r.o = 0 /\ r.c.shards = c.shards /\ r.c.fifo = c.fifo)
               /\ (gring # <<>> /\ Head(gring).slot = HeadSlot) =>
                      e = Add32(Head(gring).t, c.configuration.TTL)

\* C3 witness: an eviction has taken place, the head of the fifo is an entry
\* stored next to the int32 maximum whose expiration has wrapped, and one of
\* the instants evicts it unforced while another does not.
C3_Witness ==
    /\ c.statistics.EvictExpired > 0
    /\ HeadPick.ok /\ HeadLoad.ok
    /\ HeadItem.expirationMs < 0
    /\ \E now \in EvictTimes : Cache_Evict(c, now, FALSE).expired
    /\ \E now \in EvictTimes : ~Cache_Evict(c, now, FALSE).expired

\* C4: an entry made by a Store(k, v, t) that returned true, still in the table
\* and at the head of the fifo, is returned by Evict(t + TTL + 1, false) as
\* (v, true), and Load(k) then finds nothing.
C4_RoundTrip ==
    (gring # <<>> /\ Head(gring).slot # -1) =>
        LET h == Head(gring)
            r == Cache_Evict(c, Add32(Add32(h.t, c.configuration.TTL), 1), FALSE)
        IN r.expired /\ r.o = h.o /\ ~Cache_Load(r.c, h.key).ok

\* C5: an unforced Evict returns the entries in the order of their successful
\* Stores: the entry it removes is not one stored after an entry that is still
\* in the table.
C5_RingFifo ==
    \A now \in EvictTimes :
        (HeadPick.ok /\ HeadLoad.ok /\ Cache_Evict(c, now, FALSE).expired) =>
            \A j \in DOMAIN gring :
                (shardOf(gring[j].key) = shardOf(HeadPick.key) /\ gring[j].slot = HeadSlot)
                    => \A i \in 1..(j - 1) : gring[i].slot = -1

\* C6: Len() is the number of keys added to the fifo and not yet removed, which
\* is (tail - head) mod (capacity + 1), also after the indices have wrapped.
C6_LenCountsKeys ==
    /\ Cache_Len(c) = Len(gring)
    /\ Cache_Len(c) = (c.fifo.tail - c.fifo.head) % (c.fifo.size + 1)

\* the keys in the fifo are pairwise distinct
DistinctKeys == \A i, j \in DOMAIN gring : gring[i].key = gring[j].key => i = j

\* C7: in a cache configured with Size = N, after N successful Stores of
\* distinct keys and no eviction, MaxOccupancy is N and the next Store returns
\* false.
C7_HighWater ==
    (/\ c.statistics.EvictCalled = 0
     /\ byRef = 0
     /\ DistinctKeys
     /\ Len(gring) = c.configuration.Size) =>
        /\ c.statistics.MaxOccupancy = c.configuration.Size
        /\ \A k \in Keys, o \in Objects :
               (\A j \in DOMAIN gring : gring[j].key # k) =>
                   ~Cache_Store(c, k, o, StoreTime(o)).ok

\* C8: Len() <= Size() in every reachable state.
C8_LenAtMostSize == Cache_Len(c) <= Cache_Size(c)

\* C8 witness: Len() has reached Size() again after evictions made room, and
\* the fifo is full: it takes no further key.
C8_Witness ==
    /\ Cache_Len(c) = Cache_Size(c)
    /\ c.statistics.EvictExpired > 0
    /\ \A k \in Keys : ~itemFifo_add(c.fifo, k).ok

\* C9: after a Store(k) that returned true and the Load(k) that finds it,
\* EvictByRef of the ref that Load returned removes k (the next Load(k) finds
\* nothing) and leaves the fifo, Len() and every other table slot as they were.
C9_EvictByRefRemovesEntry ==
    \A k \in Keys, o \in Objects :
        LET s == Cache_Store(c, k, o, StoreTime(o))
            l == Cache_Load(s.c, k)
            e == Cache_EvictByRef(s.c, l.ref)
        IN (s.ok /\ l.ok) =>
               /\ ~Cache_Load(e, k).ok
               /\ e.fifo = s.c.fifo
               /\ Cache_Len(e) = Cache_Len(s.c)
               /\ \A i \in DOMAIN e.shards :
                      \A x \in 0..(e.shards[i].table.count - 1) :
                          (i # l.ref.hi \/ x # l.ref.lo \div ItemSize) =>
                              slot(e.shards[i].table, x) = slot(s.c.shards[i].table, x)

\* C10: when the key at the head of the fifo is not in its shard table, Evict
\* returns (0, false), pops that head and adds 1 to EvictLookupFailed; and
\* EvictLookupFailed never exceeds the number of entries EvictByRef removed.
C10_OrphanRepair ==
    /\ \A now \in EvictTimes, force \in BOOLEAN :
           (HeadPick.ok /\ ~HeadLoad.ok) =>
               LET r == Cache_Evict(c, now, force)
               IN /\ r.o = 0 /\ ~r.expired
                  /\ r.c.fifo = itemFifo_remove(c.fifo).s
                  /\ r.c.shards = c.shards
                  /\ r.c.statistics.EvictLookupFailed
                         = c.statistics.EvictLookupFailed + 1
    /\ c.statistics.EvictLookupFailed <= byRef

\* the cache after the caller's flush loop: Evict(now, false) repeated until a
\* call returns expired = false (at most n + 1 calls)
RECURSIVE Flush(_, _, _)
Flush(cache, now, n) ==
    LET r == Cache_Evict(cache, now, FALSE)
    IN IF r.expired /\ n > 0 THEN Flush(r.c, now, n - 1) ELSE r.c

\* C13: after Evict(now, false) has been repeated until it returned
\* expired = false, Load finds no entry whose expiration is at or before now.
C13_Flushing ==
    \A now \in EvictTimes :
        LET f == Flush(c, now, c.fifo.size + 1)
        IN \A k \in Keys :
               LET l == Hashtable_Load(f.shards[shardOf(k)].table, k, k)
               IN Cache_Load(f, k).ok =>
                      Sub32(ValueToItem(l.value).expirationMs, now) > 0

\* C14: Load of a key that Store has not been called with since New or the
\* last Reset returns payload 0 and found = false.
C14_LoadBeforeStore ==
    \A k \in Keys \ called :
        LET l == Cache_Load(c, k)
        IN l.o = 0 /\ ~l.ok

\* C14 witness: two keys have been stored, one of them in the home slot that
\* the key never stored shares, and an entry has been evicted.
C14_Witness ==
    /\ called = {0, 1}
    /\ Cache_Load(c, 0).ok
    /\ c.statistics.EvictExpired > 0

\* C15: from every reachable state, Reset leaves the ring empty (Len() = 0),
\* no key loadable and every statistics counter 0, and the next Evict returns
\* (0, false).
C15_Reset ==
    LET r == Cache_Reset(c)
    IN /\ Cache_Len(r) = 0
       /\ r.fifo.head = r.fifo.tail
       /\ \A k \in Keys : ~Cache_Load(r, k).ok
       /\ \A n \in DOMAIN r.statistics : r.statistics[n] = 0
       /\ \A now \in EvictTimes, force \in BOOLEAN :
              LET e == Cache_Evict(r, now, force)
              IN e.o = 0 /\ ~e.expired

\* C15 witness: a cache that Reset has just emptied: its tables have been
\* stored into, and now hold nothing, the ring is at head = tail = 0 and no
\* counter has moved; before its Reset a ring of 2 was full and had wrapped.
C15_Witness ==
    /\ TableStores(c, c.shardsMask) = MaxTableStore
    /\ \A i \in DOMAIN c.shards : DOMAIN c.shards[i].table.data = {}
    /\ c.fifo.head = 0 /\ c.fifo.tail = 0
    /\ c.statistics = NewStatistics

\* C16: in every reachable table state, a Store(k, h, v) that returns true is
\* followed by Load(k, h) = (v, true, _), and a Remove(k, h) that returns
\* (v, true) is followed by Load(k, h) = (0, false, 0).
C16_TableRoundTrip ==
    \A k \in TableKeys :
        /\ \A v \in TableValues :
               LET s == Hashtable_Store(tbl, k, TableHash(k), v)
                   l == Hashtable_Load(s.h, k, TableHash(k))
               IN s.ok => (l.ok /\ l.value = v)
        /\ LET r == Hashtable_Remove(tbl, k, TableHash(k))
               l == Hashtable_Load(r.h, k, TableHash(k))
           IN r.ok => (~l.ok /\ l.value = <<0, 0>> /\ l.ref = 0)

\* C17: in every reachable table state no two slots in use carry the same
\* key, and a Store of a key that is in the table returns false and writes
\* no slot.
C17_KeyUniqueness ==
    /\ \A i, j \in DOMAIN tbl.data : tbl.data[i].key = tbl.data[j].key => i = j
    /\ \A k \in TableKeys, v \in TableValues :
           Hashtable_Load(tbl, k, TableHash(k)).ok =>
               LET s == Hashtable_Store(tbl, k, TableHash(k), v)
               IN ~s.ok /\ s.h.data = tbl.data

\* the pointers of n successive Allocs on pool p, while they succeed
RECURSIVE AllocAll(_, _)
AllocAll(p, n) ==
    LET a == Pool_Alloc(p)
    IN IF n = 0 \/ ~a.ok THEN <<>> ELSE <<a.ptr>> \o AllocAll(a.p, n - 1)

\* Pool p after n successive Allocs
RECURSIVE AfterAllocs(_, _)
AfterAllocs(p, n) == IF n = 0 THEN p ELSE AfterAllocs(Pool_Alloc(p).p, n - 1)

BadPointers(p) ==
    {ptr \in PoolPointers(p) :
        \/ ptr < p.minAddr
        \/ ptr >= p.minAddr + p.objectSize * p.objectCount
        \/ (ptr - p.minAddr) % p.objectSize # 0}

\* C20: Free and FreeSync of a pointer outside the arena or off the block
\* boundaries return false, add 1 to FreeBadAddress and leave the stack and
\* top unchanged.
C20_FreeBadPointer ==
    ~fault => \A ptr \in BadPointers(pool) :
        LET f == Pool_Free(pool, ptr)
            g == Pool_FreeSync(pool, ptr)
        IN /\ ~f.ok /\ ~f.fault /\ ~g.ok /\ ~g.fault
           /\ f.p.statistics.FreeBadAddress = pool.statistics.FreeBadAddress + 1
           /\ g.p.statistics.FreeBadAddress = pool.statistics.FreeBadAddress + 1
           /\ f.p.stack = pool.stack /\ f.p.top = pool.top
           /\ g.p.stack = pool.stack /\ g.p.top = pool.top

\* the blocks on the stack below top
Available(p) == {p.stack[i] : i \in {j \in DOMAIN p.stack : j < p.top}}

\* the blocks the callers hold
Held == UNION {held[t] : t \in Callers}

\* C18: with concurrent AllocSync and FreeSync calls, each block freed once by
\* its holder, no AllocSync returns a block that is held, no call faults, and
\* whenever no call is running the blocks held and the stack entries below
\* top are exactly the pool's blocks, each once.
C18_PoolSync ==
    /\ ~twice
    /\ ~fault
    /\ (\A t \in Callers : pth[t].pc = "idle") =>
           /\ Held \cup Available(pool) = Blocks(pool)
           /\ Held \cap Available(pool) = {}
           /\ pool.top >= 0
           /\ Cardinality(Available(pool)) = pool.top

\* C11: under every interleaving of Store, Load, Evict and EvictByRef calls,
\* an entry that one successful table Store created is returned by Evict with
\* expired = true at most once, and never after EvictByRef removed it.
C11_AtMostOnce ==
    /\ ~again
    /\ evicted \cap removed = {}
    /\ 0 \notin evicted

\* two Evict calls picked the same key at the same time: one has returned the
\* entry, the other has missed it in the table
C11_Witness ==
    /\ Cardinality(evicted) = 1
    /\ c.statistics.EvictLookupFailed = 1
    /\ c.statistics.EvictCalled = 2

\* the callers that are at an access to the table of shard i
AtTable(i, pcs) == {t \in Threads : cth[t].shardIdx = i /\ cth[t].pc \in pcs}

\* every shard has at most one caller inside Lock..Unlock, and then none
\* inside RLock..RUnlock; a caller about to write or read the table holds the
\* mutex, and a caller outside every call holds none
LockState ==
    /\ \A i \in DOMAIN mutex :
          /\ Cardinality(mutex[i].w) <= 1
          /\ mutex[i].w # {} => mutex[i].r = {}
          /\ AtTable(i, {"store_table", "byref_remove", "evict_table", "evict_head"})
                \subseteq mutex[i].w
          /\ AtTable(i, {"load_table"}) \subseteq mutex[i].r
    /\ \A t \in Threads :
          cth[t].pc = "rest" => \A i \in DOMAIN mutex : t \notin mutex[i].w \cup mutex[i].r

\* a step that changes the table of a shard is taken by the one caller inside
\* the shard's Lock..Unlock
TableWritesLocked ==
    \A i \in DOMAIN mutex :
        c'.shards[i].table # c.shards[i].table =>
            \E t \in Threads : /\ mutex[i].w = {t}
                               /\ mutex[i].r = {}
                               /\ cth'[t] # cth[t]

\* C12: the slots of a shard's table are written by the caller holding the
\* shard's write lock only; a shard never has two writers, nor a writer and a
\* Load reading its table, while several Loads may read it together; every
\* call releases its lock before it returns.
C12_ShardLocking == [](LockState) /\ [][TableWritesLocked]_vars

\* a caller is removing an evicted entry from a table while a Load of a key
\* of the same shard waits for the mutex
C12_Witness ==
    \E t, u \in Threads :
        /\ cth[t].pc = "evict_head" /\ cth[t].found
        /\ cth[u].pc = "load_rlock" /\ cth[u].shardIdx = cth[t].shardIdx
        /\ mutex[cth[t].shardIdx].w = {t}

\* C21: Belongs(ptr) is true exactly for the pointers that Alloc or AllocSync
\* of this pool has returned at some earlier point.
C21_Belongs ==
    ~fault => \A ptr \in PoolPointers(pool) : Pool_Belongs(pool, ptr) <=> ptr \in given

\* C22: when the shard table rejects the insert (the key is in the table, or
\* the probes are used up), Cache.Store returns false, adds nothing to the
\* fifo and leaves Len() as it was.
C22_StoreRejected ==
    \A k \in Keys, o \in Objects :
        LET t == Hashtable_Store(c.shards[shardOf(k)].table, k, k,
                                 ItemToValue([o |-> o,
                                              expirationMs |-> Add32(StoreTime(o),
                                                                     c.configuration.TTL)]))
            s == Cache_Store(c, k, o, StoreTime(o))
        IN ~t.ok => (~s.ok /\ s.c.fifo = c.fifo /\ Cache_Len(s.c) = Cache_Len(c))

\* Load(k) finds k with the payload o
Loads(cache, k, o) == Cache_Load(cache, k).ok /\ Cache_Load(cache, k).o = o

\* C23: while a key k stays in the cache, Load(k) returns the same payload
\* after every further Store, of k or of another key, after every Evict that
\* does not return k's entry and after every EvictByRef of another key's slot.
C23_Immutable ==
    \A k \in Keys :
        LET l == Cache_Load(c, k)
        IN l.ok =>
            /\ \A k2 \in Keys, o \in Objects :
                  Loads(Cache_Store(c, k2, o, StoreTime(o)).c, k, l.o)
            /\ \A now \in EvictTimes, force \in BOOLEAN :
                  LET e == Cache_Evict(c, now, force)
                  IN (HeadPick.key # k \/ ~e.expired) => Loads(e.c, k, l.o)
            /\ \A ref \in HeldRefs :
                  slot(c.shards[ref.hi].table, ref.lo \div ItemSize).key # k
                      => Loads(Cache_EvictByRef(c, ref), k, l.o)

\* every entry of a key other than k that is in a table of cache a is in the
\* same slot of cache b
OthersKept(a, b, k) ==
    \A i \in DOMAIN a.shards :
        \A x \in DOMAIN a.shards[i].table.data :
            a.shards[i].table.data[x].key # k =>
                /\ x \in DOMAIN b.shards[i].table.data
                /\ b.shards[i].table.data[x] = a.shards[i].table.data[x]

\* C24: EvictByRef(r), with r returned by a Load(k) that found k, removes no
\* entry of another key, neither at once nor after k was evicted and another
\* key was stored in k's shard.
C24_RefIdentity ==
    \A k \in Keys :
        LET l == Cache_Load(c, k)
        IN l.ok =>
            /\ OthersKept(c, Cache_EvictByRef(c, l.ref), k)
            /\ \A k2 \in Keys \ {k}, o \in Objects :
                  LET e == Cache_Evict(c, 0, TRUE)
                      s == Cache_Store(e.c, k2, o, StoreTime(o))
                  IN (HeadPick.key = k /\ e.expired /\ shardOf(k2) = shardOf(k)) =>
                         OthersKept(s.c, Cache_EvictByRef(s.c, l.ref), k)

\* the keys queued in the fifo, from head up to tail
RingKeys(s) ==
    {s.data[j] : j \in IF s.head <= s.tail THEN s.head..(s.tail - 1)
                       ELSE (s.head..s.size) \cup (0..(s.tail - 1))}

AllResting == \A t \in Threads : cth[t].pc = "rest"

\* C27: with Store calls running together, when all have returned every key
\* whose Store returned true is queued in the fifo, and the fifo holds as
\* many keys as Stores have added (no slot was written twice, tail advanced
\* once per add).
C27_ConcurrentStores ==
    AllResting =>
        /\ added \subseteq RingKeys(c.fifo)
        /\ Cardinality(added) <= itemFifo_Len(c.fifo)

\* the keys in the shard tables
KeysInTables(cache) ==
    UNION {{cache.shards[i].table.data[x].key : x \in DOMAIN cache.shards[i].table.data} :
           i \in DOMAIN cache.shards}

\* C26: with one caller of Store and one caller of Evict, whatever a fifo add
\* racing with a pick makes Evict see, when both callers are outside their
\* calls every key whose Store returned true and that is in its shard table
\* is queued in the fifo.
C26_StoreEvictRace ==
    AllResting => (added \cap KeysInTables(c)) \subseteq RingKeys(c.fifo)

\* C25: with Evict calls running together, the fifo entry an Evict is about
\* to pop holds the key that call looked up in the table, and every key in a
\* shard table keeps its fifo entry.
C25_ConcurrentEvicts ==
    /\ \A t \in Threads :
          (cth[t].pc = "evict_head" /\ c.fifo.head # c.fifo.tail) =>
              c.fifo.data[c.fifo.head] = cth[t].key
    /\ KeysInTables(c) \subseteq RingKeys(c.fifo)

\* the slots in use in the tables of cache a that are not, or not with the
\* same item, in the tables of cache b
SlotsGone(a, b) ==
    {<<i, x>> \in UNION {{<<j, y>> : y \in DOMAIN a.shards[j].table.data} :
                            j \in DOMAIN a.shards} :
        \/ x \notin DOMAIN b.shards[i].table.data
        \/ b.shards[i].table.data[x] # a.shards[i].table.data[x]}

\* fifo t is fifo s with n keys popped from the head
Popped(s, t, n) ==
    /\ t.tail = s.tail /\ t.data = s.data /\ t.size = s.size
    /\ t.head = IF n = 0 THEN s.head ELSE itemFifo_inc(s, s.head)

\* C28: an Evict call removes at most one table entry, adds none, and pops at
\* most one fifo entry.  When it returns expired = true it has removed one
\* entry and popped the head; when it returns expired = false the tables are
\* unchanged, and the fifo is unchanged unless the head key was not in its
\* table, and then exactly the head is popped.
C28_EvictFrame ==
    \A now \in EvictTimes, force \in BOOLEAN :
        LET r == Cache_Evict(c, now, force)
            orphan == HeadPick.ok /\ ~HeadLoad.ok
        IN /\ SlotsGone(r.c, c) = {}
           /\ Cardinality(SlotsGone(c, r.c)) <= 1
           /\ Popped(c.fifo, r.c.fifo, 0) \/ Popped(c.fifo, r.c.fifo, 1)
           /\ r.expired => (Cardinality(SlotsGone(c, r.c)) = 1 /\ Popped(c.fifo, r.c.fifo, 1))
           /\ ~r.expired => /\ SlotsGone(c, r.c) = {}
                            /\ Popped(c.fifo, r.c.fifo, IF orphan THEN 1 ELSE 0)

\* C28 witness: an Evict has dropped an orphan, and the head of the fifo is
\* again a key that is not in its table while other keys are
C28_Witness ==
    /\ c.statistics.EvictLookupFailed > 0
    /\ HeadPick.ok /\ ~HeadLoad.ok
    /\ KeysInTables(c) # {}

\* the keys of fifo s from index i up to tail, in order
RECURSIVE RingFrom(_, _)
RingFrom(s, i) ==
    IF i = s.tail THEN <<>> ELSE <<s.data[i]>> \o RingFrom(s, itemFifo_inc(s, i))

\* C29: a fifo of capacity n is a bounded queue: add succeeds exactly when
\* fewer than n keys are queued and then queues the key last, otherwise it
\* returns false and leaves the fifo as it was; pick returns the oldest key
\* and changes nothing; remove returns and drops the oldest key; pick and
\* remove return ok = false exactly when no key is queued.
C29_BoundedQueue ==
    LET p == itemFifo_pick(fifo)
        r == itemFifo_remove(fifo)
    IN /\ RingFrom(fifo, fifo.head) = queue
       /\ \A k \in FifoKeys :
             LET a == itemFifo_add(fifo, k)
             IN /\ a.ok <=> Len(queue) < fifo.size
                /\ a.ok => RingFrom(a.s, a.s.head) = Append(queue, k)
                /\ ~a.ok => a.s = fifo
       /\ p.ok <=> queue # <<>>
       /\ p.ok => p.key = Head(queue)
       /\ r.ok <=> queue # <<>>
       /\ r.ok => (r.key = Head(queue) /\ RingFrom(r.s, r.s.head) = Tail(queue))
       /\ ~r.ok => r.s = fifo

\* C29 witness: the indices have wrapped and the fifo is full with three
\* different keys
C29_Witness ==
    /\ fifo.size = 3
    /\ fifo.head > fifo.tail
    /\ Len(queue) = 3
    /\ queue[1] # queue[2] /\ queue[2] # queue[3] /\ queue[1] # queue[3]

\* C30: for the entry at the head of the fifo, stored at time t with any TTL
\* 0 <= TTL < 2^31, and every evict time n with 0 <= (n - t) mod 2^32 < 2^31,
\* which is n - t >= 0 as int32, Evict(n, false) reports expired exactly when
\* (n - t) mod 2^32 >= TTL; the expiration kept in the table is t + TTL as
\* int32.
C30_ExpirationWraps ==
    (gring # <<>> /\ HeadPick.ok /\ HeadLoad.ok /\ Head(gring).slot = HeadSlot) =>
        LET t == Head(gring).t
            TTL == c.configuration.TTL
        IN /\ HeadItem.expirationMs = Add32(t, TTL)
           /\ \A n \in ExpireTimes :
                 Sub32(n, t) >= 0 =>
                     (Cache_Evict(c, n, FALSE).expired <=> Sub32(n, t) >= TTL)

\* C30 witness: an Evict has found the head entry not expired; the entry was
\* stored at the int32 maximum, its expiration has wrapped below zero, and
\* of the later times one evicts it and one does not
C30_Witness ==
    /\ c.statistics.EvictNotExpired > 0
    /\ gring # <<>> /\ HeadPick.ok /\ HeadLoad.ok /\ Head(gring).slot = HeadSlot
    /\ Head(gring).t = MaxInt32
    /\ c.configuration.TTL = 2
    /\ HeadItem.expirationMs < 0
    /\ Cache_Evict(c, MinInt32 + 1, FALSE).expired
    /\ ~Cache_Evict(c, MinInt32, FALSE).expired

\* the slots home .. home + n - 1 of table h are all in use by keys other
\* than key
HeldByOthers(h, key, home, n) ==
    \A i \in home..(home + n - 1) :
        inUse(slot(h, i)) /\ slot(h, i).key # key

\* C31: the probe budget of every shard table is Configuration.Collisions
\* (64 when Collisions was given as 0), and an insert into a shard table
\* fails without finding the key exactly when the Collisions slots from the
\* key's home slot on are all held by other keys.
C31_ProbeBudget ==
    /\ \A i \in DOMAIN c.shards :
          c.shards[i].table.maxCollisions = c.configuration.Collisions
    /\ \A key \in Keys :
          LET h == c.shards[shardOf(key)].table
              home == moduloSize(h.size, key)
              r == Hashtable_Store(h, key, key, <<0, 0>>)
          IN (~r.ok /\ ~find(h, key, key, home).ok)
                 <=> HeldByOthers(h, key, home, c.configuration.Collisions)

\* C32: every Evict that removes an entry adds 1 to EvictExpired; EvictForce
\* grows by 1 exactly when the entry was removed with force = true before
\* its expiration, and stays as it is otherwise: in particular when an
\* expired entry is evicted with force = false.
C32_EvictForce ==
    \A now \in EvictTimes, force \in BOOLEAN :
        LET r == Cache_Evict(c, now, force)
            natural == isExpired(HeadItem.expirationMs, now)
        IN /\ r.expired =>
                 r.c.statistics.EvictExpired = c.statistics.EvictExpired + 1
           /\ r.c.statistics.EvictForce =
                 c.statistics.EvictForce
                     + (IF r.expired /\ force /\ ~natural THEN 1 ELSE 0)

\* the pool invariant: top within 0 .. objectCount, and the stack entries
\* below top pairwise distinct blocks of the arena
PoolGood(p) ==
    /\ 0 <= p.top /\ p.top <= p.objectCount
    /\ \A i \in 0..(p.top - 1) : p.stack[i] \in Blocks(p)
    /\ \A i, j \in 0..(p.top - 1) : i # j => p.stack[i] # p.stack[j]

\* C33: from every pool state that satisfies the invariant, Alloc and AllocSync
\* keep it, and Free and FreeSync of any block of the arena, lent or not,
\* keep it and do not fault on the stack index.
C33_PoolInvariant ==
    (~fault /\ PoolGood(pool)) =>
        /\ PoolGood(Pool_Alloc(pool).p) /\ PoolGood(Pool_AllocSync(pool).p)
        /\ \A ptr \in Blocks(pool) :
              /\ ~Pool_Free(pool, ptr).fault /\ PoolGood(Pool_Free(pool, ptr).p)
              /\ ~Pool_FreeSync(pool, ptr).fault
              /\ PoolGood(Pool_FreeSync(pool, ptr).p)

\* the slots Store, and Load and Remove through find, read for key in tbl
TableStoreProbes(key) ==
    StoreProbes(tbl, [key |-> key, hash |-> SetInUse(TableHash(key))],
                moduloSize(tbl.size, TableHash(key)), 0)
TableFindProbes(key) ==
    findProbes(tbl, [key |-> key, hash |-> SetInUse(TableHash(key))],
               moduloSize(tbl.size, TableHash(key)), 0)

\* C34: every slot in use has an index s with home <= s < home + C, home
\* being the hash stored with it modulo the table size P, and lies inside the
\* array of P + C slots; Store, Load and Remove read slots of the array only,
\* at most C of them per call.
C34_BoundedProbing ==
    /\ tbl.count = tbl.size + tbl.maxCollisions
    /\ \A s \in DOMAIN tbl.data :
          inUse(slot(tbl, s)) =>
              LET home == moduloSize(tbl.size, slot(tbl, s).hash.bits)
              IN /\ home <= s /\ s < home + tbl.maxCollisions
                 /\ 0 <= s /\ s < tbl.count
    /\ \A key \in TableKeys :
          /\ TableStoreProbes(key) \subseteq 0..(tbl.count - 1)
          /\ TableFindProbes(key) \subseteq 0..(tbl.count - 1)
          /\ Cardinality(TableStoreProbes(key)) <= tbl.maxCollisions
          /\ Cardinality(TableFindProbes(key)) <= tbl.maxCollisions

\* C34 witness: with P = 2 and C = 2 a chain has run into the spare slots
\* (key 1 sits at home + C - 1 = 2 = P), and a Store and a Load each read C
\* slots without success
C34_Witness ==
    /\ tbl.size = 2 /\ tbl.maxCollisions = 2
    /\ inUse(slot(tbl, 2)) /\ slot(tbl, 2).key = 1
    /\ ~Hashtable_Store(tbl, 4, TableHash(4), <<1, 0>>).ok
    /\ ~Hashtable_Load(tbl, 4, TableHash(4)).ok
    /\ TableStoreProbes(4) = {0, 1}
    /\ TableFindProbes(4) = {0, 1}

\* the calls of an iteration over h: GetNext from index on, each call made
\* with the nextIndex the call before returned, up to the first call that
\* returns ok = false
RECURSIVE Iteration(_, _)
Iteration(h, index) ==
    LET r == Hashtable_GetNext(h, index)
    IN IF r.ok THEN <<r>> \o Iteration(h, r.nextIndex) ELSE <<r>>

\* the slots of tbl in use
TableInUse == {s \in DOMAIN tbl.data : inUse(slot(tbl, s))}

\* C35: the iteration from index 0 returns every slot in use once, in
\* ascending slot order, with the key and the value of that slot, and ends
\* with a call that returns ok = false and the number of slots as nextIndex.
C35_Iteration ==
    LET it == Iteration(tbl, 0)
        n == Len(it)
    IN /\ n = Cardinality(TableInUse) + 1
       /\ ~it[n].ok /\ it[n].nextIndex = tbl.count
       /\ \A a \in 1..(n - 1) :
             /\ it[a].ok
             /\ (it[a].nextIndex - 1) \in TableInUse
             /\ it[a].key = slot(tbl, it[a].nextIndex - 1).key
             /\ it[a].value = slot(tbl, it[a].nextIndex - 1).value
       /\ \A a, b \in 1..(n - 1) : a < b => it[a].nextIndex < it[b].nextIndex

\* C35 witness: three slots next to each other are in use, the last of them
\* a spare slot, and the iteration has returned the three
C35_Witness ==
    /\ TableInUse = {0, 1, 2}
    /\ Len(Iteration(tbl, 0)) = 4
    /\ Iteration(tbl, 0)[3].key = slot(tbl, 2).key

\* C36: every key held in a shard table is queued in the expiration fifo, and
\* a Store(k) that returns false leaves what Load(k) returns as it was.
C36_NoEntryWithoutRingSlot ==
    /\ KeysInTables(c) \subseteq RingKeys(c.fifo)
    /\ \A k \in Keys, o \in Objects :
          LET s == Cache_Store(c, k, o, StoreTime(o))
          IN ~s.ok => Cache_Load(s.c, k) = Cache_Load(c, k)

\* the tables of cache a and of cache b hold the same entries
SameTables(a, b) ==
    \A i \in DOMAIN a.shards : a.shards[i].table.data = b.shards[i].table.data

\* C37: EvictByRef called with the ItemRef of a Load that did not find its
\* key removes no entry: the tables are as before the call.
C37_MissRef ==
    \A k \in Keys :
        LET l == Cache_Load(c, k)
        IN ~l.ok => SameTables(c, Cache_EvictByRef(c, l.ref))

\* C38: a removal leaves every other key loadable.  Every key whose table
\* insert succeeded and whose entry no Evict or EvictByRef has removed is
\* found by Load; and for every key k2 that Load finds, Load returns the same
\* after Evict has removed another key, after EvictByRef has reset the slot
\* of another key, and after Remove or RemoveByRef of another key on k2's
\* shard table.
C38_RemovalKeepsOthers ==
    /\ \A n \in DOMAIN gring :
          gring[n].slot >= 0 => Cache_Load(c, gring[n].key).ok
    /\ \A k2 \in Keys :
          LET l == Cache_Load(c, k2)
              h == c.shards[shardOf(k2)].table
              t == Hashtable_Load(h, k2, k2)
          IN l.ok =>
              /\ \A now \in EvictTimes, force \in BOOLEAN :
                    (HeadPick.ok /\ HeadPick.key # k2) =>
                        Cache_Load(Cache_Evict(c, now, force).c, k2) = l
              /\ \A ref \in HeldRefs :
                    slot(c.shards[ref.hi].table, ref.lo \div ItemSize).key # k2 =>
                        Cache_Load(Cache_EvictByRef(c, ref), k2) = l
              /\ \A k \in Keys \ {k2} :
                    Hashtable_Load(Hashtable_Remove(h, k, k).h, k2, k2) = t
              /\ \A x \in DOMAIN h.data :
                    h.data[x].key # k2 =>
                        Hashtable_Load(Hashtable_RemoveByRef(h, x * ItemSize), k2, k2) = t

\* C38 witness: an Evict has removed an entry, and a key is found by Load in
\* a slot after its home slot while the home slot is free
C38_Witness ==
    /\ c.statistics.EvictExpired > 0
    /\ \E n \in DOMAIN gring :
          LET k == gring[n].key
              h == c.shards[shardOf(k)].table
              home == moduloSize(h.size, k)
          IN /\ gring[n].slot > home
             /\ ~inUse(slot(h, home))
             /\ Cache_Load(c, k).ok

\* C39: with a caller that keeps calling Evict with a clock that passes every
\* expiration, every payload whose Store returned true is eventually
\* returned by an Evict with expired = true, and the fifo eventually becomes
\* empty.
C39_EventualEviction ==
    /\ \A o \in 1..MaxLiveStore : (o \in owed) ~> (o \notin owed)
    /\ itemFifo_pick(c.fifo).ok ~> ~itemFifo_pick(c.fifo).ok

\* the four outcome counters of Evict
Outcomes == {"EvictExpired", "EvictNotExpired", "EvictLookupFailed", "EvictPeekFailed"}

\* no counter of statistics b is below its value in statistics a
NotBelow(a, b) == \A f \in DOMAIN a : a[f] <= b[f]

\* C40: EvictCalled is the sum of EvictExpired, EvictNotExpired,
\* EvictLookupFailed and EvictPeekFailed; an Evict call adds 1 to EvictCalled
\* and to exactly one of the four; and Store, Evict and EvictByRef decrease
\* no counter.
C40_EvictPartition ==
    LET st == c.statistics
    IN /\ st.EvictCalled = st.EvictExpired + st.EvictNotExpired
                               + st.EvictLookupFailed + st.EvictPeekFailed
       /\ \A now \in EvictTimes, force \in BOOLEAN :
             LET r == Cache_Evict(c, now, force).c.statistics
             IN /\ r.EvictCalled = st.EvictCalled + 1
                /\ \E f \in Outcomes :
                      /\ r[f] = st[f] + 1
                      /\ \A g \in Outcomes \ {f} : r[g] = st[g]
                /\ NotBelow(st, r)
       /\ \A k \in Keys, o \in Objects :
             NotBelow(st, Cache_Store(c, k, o, StoreTime(o)).c.statistics)
       /\ \A ref \in HeldRefs : NotBelow(st, Cache_EvictByRef(c, ref).statistics)

\* C40 witness: two Evict calls have been made, one has evicted an entry and
\* one has dropped a key that was not in its table, and the next call will
\* find the fifo empty
C40_Witness ==
    /\ c.statistics.EvictCalled = 2
    /\ c.statistics.EvictExpired = 1
    /\ c.statistics.EvictLookupFailed = 1
    /\ Cache_Evict(c, 0, FALSE).c.statistics.EvictPeekFailed = 1

====
